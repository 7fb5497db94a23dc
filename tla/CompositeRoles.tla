--------------------------- MODULE CompositeRoles ---------------------------
(***************************************************************************)
(* Roles, the composites an administrator makes of them, and what a user   *)
(* holds through them.                                                     *)
(*                                                                         *)
(* A role has children (composite_role) and a flag that says whether it    *)
(* has any (keycloak_role.composite).  The walk that collects a user's     *)
(* roles trusts the flag.  A composite write changes the children one by   *)
(* one and brings the flag up to date afterwards, without a transaction    *)
(* around the two, and compares with the flag it read when it began.       *)
(***************************************************************************)
EXTENDS Naturals, FiniteSets

CONSTANTS
  Roles,         \* role ids
  OwnRoles,      \* roles of the realm's own client: their composites are not to be written
  RoleRequests,  \* requests, each served once
  NoRole         \* absent value

ASSUME CompositeRolesAssumption ==
  /\ OwnRoles \subseteq Roles /\ IsFiniteSet(Roles)
  /\ NoRole \notin Roles

VARIABLES
  unborn,     \* ids not drawn yet: random ids never repeat
  roleRows,   \* keycloak_role
  composite,  \* its composite column
  children,   \* composite_role
  roleReq,    \* the requests under way
  clash       \* roles a second writer or a cut-off request met half done (history)

rolesVars == <<unborn, roleRows, composite, children, roleReq, clash>>

RoleSteps == {"idle", "apply", "write", "over"}
RoleKinds == {"add", "remove", "update"}

\* `flag` is the composite column as the request read it.
RoleRequest == [step : RoleSteps, kind : RoleKinds, role : Roles \cup {NoRole},
                flag : BOOLEAN, batch : SUBSET Roles]
IdleRoleRequest == [step |-> "idle", kind |-> "update", role |-> NoRole,
                    flag |-> FALSE, batch |-> {}]
OverRoleRequest == [IdleRoleRequest EXCEPT !.step = "over"]

RolesTypeOK ==
  /\ unborn \in SUBSET Roles
  /\ roleRows \in SUBSET (Roles \ unborn)
  /\ composite \in [Roles -> BOOLEAN]
  /\ children \in SUBSET (roleRows \X roleRows)
  /\ roleReq \in [RoleRequests -> RoleRequest]
  /\ clash \in SUBSET Roles

RolesInit ==
  /\ unborn = Roles \ OwnRoles
  /\ roleRows = OwnRoles
  /\ composite = [r \in Roles |-> FALSE]
  /\ children = {}
  /\ roleReq = [q \in RoleRequests |-> IdleRoleRequest]
  /\ clash = {}

ChildrenOf(r) == {c \in Roles : <<r, c>> \in children}
ParentsOf(c) == {r \in Roles : <<r, c>> \in children}

Busy(r) == \E q \in RoleRequests : roleReq[q].role = r

-----------------------------------------------------------------------------
\* createRealmRole and createClientRole
CreateRole ==
  /\ \E r \in unborn :
       /\ unborn' = unborn \ {r}
       /\ roleRows' = roleRows \cup {r}
  /\ UNCHANGED <<composite, children, roleReq, clash>>

\* The locator reads the role; eachComposite refuses the realm's own roles and
\* resolves every child before it writes one.
LocateForComposites(q) ==
  /\ roleReq[q].step = "idle"
  /\ \E r \in roleRows \ OwnRoles, kind \in {"add", "remove"}, batch \in SUBSET roleRows :
       /\ batch # {}
       /\ roleReq' = [roleReq EXCEPT ![q] = [step |-> "apply", kind |-> kind, role |-> r,
                                             flag |-> composite[r], batch |-> batch]]
       /\ clash' = IF Busy(r) THEN clash \cup {r} ELSE clash
  /\ UNCHANGED <<unborn, roleRows, composite, children>>

\* applyRoleUpdate carries the flag it read into the row it writes.
LocateForUpdate(q) ==
  /\ roleReq[q].step = "idle"
  /\ \E r \in roleRows :
       /\ roleReq' = [roleReq EXCEPT ![q] = [IdleRoleRequest EXCEPT !.step = "write", !.role = r,
                                                                    !.flag = composite[r]]]
       /\ clash' = IF Busy(r) THEN clash \cup {r} ELSE clash
  /\ UNCHANGED <<unborn, roleRows, composite, children>>

\* AddComposite; a child that is there already is no error.  Both ends are
\* foreign keys: a role deleted since the check ends the batch, and the flag is
\* brought up to date all the same.
AddComposite(q) ==
  LET r == roleReq[q].role IN
  /\ roleReq[q].step = "apply"
  /\ roleReq[q].kind = "add"
  /\ \E c \in roleReq[q].batch :
       IF {r, c} \subseteq roleRows
       THEN /\ children' = children \cup {<<r, c>>}
            /\ roleReq' = [roleReq EXCEPT ![q].batch = @ \ {c}]
       ELSE /\ roleReq' = [roleReq EXCEPT ![q].batch = {}]
            /\ UNCHANGED children
  /\ UNCHANGED <<unborn, roleRows, composite, clash>>

\* RemoveComposite; a child that is not there is no error.
RemoveComposite(q) ==
  LET r == roleReq[q].role IN
  /\ roleReq[q].step = "apply"
  /\ roleReq[q].kind = "remove"
  /\ \E c \in roleReq[q].batch :
       /\ children' = children \ {<<r, c>>}
       /\ roleReq' = [roleReq EXCEPT ![q].batch = @ \ {c}]
  /\ UNCHANGED <<unborn, roleRows, composite, clash>>

\* Mutant: the flag is only ever raised.
SyncOnlyRaises(q) ==
  LET has == ChildrenOf(roleReq[q].role) # {} IN
  /\ roleReq[q].step = "apply"
  /\ roleReq[q].batch = {}
  /\ roleReq' = [roleReq EXCEPT ![q] =
                   IF roleReq[q].flag = has \/ ~has THEN OverRoleRequest
                   ELSE [@ EXCEPT !.step = "write", !.flag = has]]
  /\ UNCHANGED <<unborn, roleRows, composite, children, clash>>

\* syncCompositeFlag lists the children and writes the flag when it is not the
\* one the locator read.
SyncCompositeFlag(q) ==
  LET has == ChildrenOf(roleReq[q].role) # {} IN
  /\ roleReq[q].step = "apply"
  /\ roleReq[q].batch = {}
  /\ roleReq' = [roleReq EXCEPT ![q] =
                   IF roleReq[q].flag = has THEN OverRoleRequest
                   ELSE [@ EXCEPT !.step = "write", !.flag = has]]
  /\ UNCHANGED <<unborn, roleRows, composite, children, clash>>

\* roleRepo.Update, for both; a row that is gone is an error.
UpdateRole(q) ==
  LET r == roleReq[q].role IN
  /\ roleReq[q].step = "write"
  /\ composite' = IF r \in roleRows THEN [composite EXCEPT ![r] = roleReq[q].flag] ELSE composite
  /\ roleReq' = [roleReq EXCEPT ![q] = OverRoleRequest]
  /\ UNCHANGED <<unborn, roleRows, children, clash>>

\* The request is cancelled, or the store fails, before its last write.
CutRoleRequest(q) ==
  /\ roleReq[q].step \notin {"idle", "over"}
  /\ clash' = IF roleReq[q].kind = "update" THEN clash ELSE clash \cup {roleReq[q].role}
  /\ roleReq' = [roleReq EXCEPT ![q] = OverRoleRequest]
  /\ UNCHANGED <<unborn, roleRows, composite, children>>

\* Mutant: composite_role has no foreign key to the child.
DeleteRoleNotAsChild(r) ==
  /\ r \in roleRows
  /\ roleRows' = roleRows \ {r}
  /\ composite' = [composite EXCEPT ![r] = FALSE]
  /\ children' = {e \in children : e[1] # r}
  /\ clash' = clash \cup {p \in ParentsOf(r) : Busy(p)}
  /\ UNCHANGED <<unborn, roleReq>>

\* roleRepo.Delete, one transaction: the flag goes from every parent that has no
\* other child, the row goes, and composite_role follows by cascade.
DeleteRole(r) ==
  /\ r \in roleRows
  /\ roleRows' = roleRows \ {r}
  /\ composite' = [p \in Roles |-> composite[p] /\ p # r
                                   /\ ~(p \in ParentsOf(r) /\ ChildrenOf(p) = {r})]
  /\ children' = {e \in children : r \notin {e[1], e[2]}}
  /\ clash' = clash \cup {p \in ParentsOf(r) : Busy(p)}
  /\ UNCHANGED <<unborn, roleReq>>

RolesNext ==
  \/ CreateRole
  \/ \E q \in RoleRequests :
       \/ LocateForComposites(q) \/ LocateForUpdate(q)
       \/ AddComposite(q) \/ RemoveComposite(q) \/ SyncCompositeFlag(q)
       \/ UpdateRole(q) \/ CutRoleRequest(q)
  \/ \E r \in Roles : DeleteRole(r)

RolesSpec == RolesInit /\ [][RolesNext]_rolesVars

-----------------------------------------------------------------------------
(* What a user holds: roles.ExpandFrom, a walk with a queue and a seen set.  *)
(* The queue's order does not change the set that comes out, so the walk     *)
(* takes a whole level at a time.                                            *)

\* Roles already seen are skipped; the children of the others follow where the
\* flag is set.
WalkLevel(w) ==
  LET new == w.queue \ w.seen IN
  [seen |-> w.seen \cup new, queue |-> UNION {ChildrenOf(r) : r \in {x \in new : composite[x]}}]

\* Mutant: the children are taken and theirs are not.
ExpandOneLevel(direct) ==
  direct \cup UNION {ChildrenOf(r) : r \in {d \in direct : composite[d]}}

\* No level is deeper than there are roles.
ExpandFrom(direct) ==
  LET walk[n \in 0..Cardinality(Roles)] ==
        IF n = 0 THEN [seen |-> {}, queue |-> direct] ELSE WalkLevel(walk[n - 1])
  IN walk[Cardinality(Roles)].seen

\* Filter with the set of InScope, for a client without fullScopeAllowed: of the
\* user's effective roles, those its scope mappings reach.
TokenRoles(effective, inScope) == effective \cap inScope

-----------------------------------------------------------------------------
(* Properties *)

\* "true exactly when the role has children" (roleRepo.Delete): the flag agrees
\* with the children of every role nobody is writing, unless two writers met on
\* it or one was cut off.
FlagFollowsChildren ==
  \A r \in roleRows : Busy(r) \/ r \in clash \/ composite[r] = (ChildrenOf(r) # {})

\* The reference: the smallest set that holds the direct roles and the children
\* of its members, that is, what every such set holds.
Closed == {t \in SUBSET Roles : \A r \in t : ChildrenOf(r) \subseteq t}
Reachable(closed, direct) == {r \in Roles : \A t \in closed : direct \subseteq t => r \in t}

\* ExpandFrom and InScope: while the flags of the roles involved agree with their
\* children, a token carries exactly the roles that both the user and the
\* client's scope reach - through cycles too, and never a parent because of its
\* child.
TokenHoldsReachable ==
  LET closed == Closed
      walks == {[found |-> ExpandFrom(d), reached |-> Reachable(closed, d)] : d \in SUBSET roleRows} IN
  \A user, scope \in walks :
    (\A r \in user.reached \cup scope.reached : composite[r] = (ChildrenOf(r) # {}))
      => TokenRoles(user.found, scope.found) = user.reached \cap scope.reached
=============================================================================
