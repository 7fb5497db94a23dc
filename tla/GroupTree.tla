----------------------------- MODULE GroupTree -----------------------------
(***************************************************************************)
(* Groups of a realm and of its organizations, one table for both.         *)
(*                                                                         *)
(* parent_id and organization_id are plain columns: a deletion walks the   *)
(* subtree itself, reading the children of one group after another, and    *)
(* deletes what it has seen in one transaction afterwards.  Creations and  *)
(* moves resolve the parent first and write later.  Names are left out, and *)
(* with them the requests that are refused for a taken one.                *)
(***************************************************************************)
EXTENDS Naturals, FiniteSets

CONSTANTS
  GroupIds, OrgIds,   \* ids; random, so none is drawn twice
  GroupUsers,         \* users
  SeedGroups,         \* the groups and organizations that are there to begin with
  SeedOrgs,
  GroupRequests,      \* requests, each served once
  NoGroup             \* absent value: no row, no parent, no organization

GroupRow == [parent : GroupIds \cup {NoGroup}, org : OrgIds \cup {NoGroup}]

ASSUME GroupTreeAssumption ==
  /\ NoGroup \notin GroupIds \cup OrgIds \cup GroupRow
  /\ GroupIds \cap OrgIds = {} /\ IsFiniteSet(GroupIds)
  /\ SeedOrgs \subseteq OrgIds
  /\ SeedGroups \in [GroupIds -> GroupRow \cup {NoGroup}]
  /\ \A g \in GroupIds :
       \/ SeedGroups[g] = NoGroup
       \/ SeedGroups[g].parent \in {NoGroup} \cup {p \in GroupIds : SeedGroups[p] # NoGroup}

\* An organization of the seed has one root, and its groups lie below each other.
ASSUME GroupTreeSeedAssumption ==
  LET seed == {g \in GroupIds : SeedGroups[g] # NoGroup} IN
  /\ \A g \in seed : SeedGroups[g].org \in SeedOrgs \cup {NoGroup}
  /\ \A g \in seed : SeedGroups[g].org # NoGroup /\ SeedGroups[g].parent # NoGroup
                     => SeedGroups[SeedGroups[g].parent].org = SeedGroups[g].org
  /\ \A g, h \in seed : SeedGroups[g] = SeedGroups[h] /\ SeedGroups[g].parent = NoGroup
                        => g = h \/ SeedGroups[g].org = NoGroup

VARIABLES
  groupRow,     \* keycloak_group
  orgRows,      \* organization
  membership,   \* group_membership
  defaults,     \* realm_default_group
  unused,       \* group and organization ids not drawn yet
  groupReq,     \* the requests under way
  late          \* groups put below a group a deletion had looked into, or that had gone (history)

groupsVars == <<groupRow, orgRows, membership, defaults, unused, groupReq, late>>

GroupSteps == {"idle", "insert", "move", "root", "find", "walk", "delete", "deleteOrg", "over"}

\* `out` is what subtree has found, `todo` what it has yet to look into.
IdleGroupRequest == [step |-> "idle", group |-> NoGroup, parent |-> NoGroup, org |-> NoGroup,
                     ends |-> FALSE, out |-> {}, todo |-> {}]
OverGroupRequest == [IdleGroupRequest EXCEPT !.step = "over"]
GroupRequest ==
  [step : GroupSteps, group : GroupIds \cup {NoGroup}, parent : GroupIds \cup {NoGroup},
   org : OrgIds \cup {NoGroup}, ends : BOOLEAN, out : SUBSET GroupIds, todo : SUBSET GroupIds]

Groups == {g \in GroupIds : groupRow[g] # NoGroup}

\* Memberships and default groups follow their group: real foreign keys.
GroupsTypeOK ==
  /\ groupRow \in [GroupIds -> GroupRow \cup {NoGroup}]
  /\ orgRows \in SUBSET OrgIds
  /\ membership \in SUBSET (Groups \X GroupUsers)
  /\ defaults \in SUBSET Groups
  /\ unused \in SUBSET (GroupIds \cup OrgIds)
  /\ groupReq \in [GroupRequests -> GroupRequest]
  /\ late \in SUBSET GroupIds

GroupsInit ==
  /\ groupRow = SeedGroups
  /\ orgRows = SeedOrgs
  /\ membership = {}
  /\ defaults = {}
  /\ unused = (GroupIds \cup OrgIds) \ (SeedOrgs \cup {g \in GroupIds : SeedGroups[g] # NoGroup})
  /\ groupReq = [q \in GroupRequests |-> IdleGroupRequest]
  /\ late = {}

SubGroups(p) == {g \in Groups : groupRow[g].parent = p}
OrganizationRoots(o) == {g \in SubGroups(NoGroup) : groupRow[g].org = o}

-----------------------------------------------------------------------------
GroupRequestArrives(q, request) ==
  /\ groupReq[q].step = "idle"
  /\ groupReq' = [groupReq EXCEPT ![q] = request]
GroupRequestEnds(q) == groupReq' = [groupReq EXCEPT ![q] = OverGroupRequest]
GroupRequestServed(q) == groupReq[q].step = "idle" /\ GroupRequestEnds(q)

\* A deletion has looked into p, or p has gone.
LookedInto(p) == p # NoGroup /\ (p \notin Groups \/ \E q \in GroupRequests : p \in groupReq[q].out \ groupReq[q].todo)

\* Group g now lies below p.
PutBelow(g, p, org) ==
  /\ groupRow' = [groupRow EXCEPT ![g] = [parent |-> p, org |-> org]]
  /\ late' = IF LookedInto(p) THEN late \cup {g} ELSE late

-----------------------------------------------------------------------------
(* Creations and moves *)

\* createGroup, createChild and the two creates of an organization have resolved
\* the parent.  The realm's route takes an organization's group for a parent and
\* makes a group of the realm below it.
PostGroup(q) ==
  /\ \/ GroupRequestArrives(q, [IdleGroupRequest EXCEPT !.step = "insert"])
     \/ \E p \in Groups :
          \E org \in {NoGroup} \cup ({groupRow[p].org} \cap orgRows) :
            GroupRequestArrives(q, [IdleGroupRequest EXCEPT !.step = "insert", !.parent = p, !.org = org])
  /\ UNCHANGED <<groupRow, orgRows, membership, defaults, unused, late>>

InsertGroup(q) ==
  /\ groupReq[q].step = "insert"
  /\ \E g \in GroupIds \cap unused :
       /\ PutBelow(g, groupReq[q].parent, groupReq[q].org)
       /\ unused' = unused \ {g}
  /\ GroupRequestEnds(q)
  /\ UNCHANGED <<orgRows, membership, defaults>>

\* moveOrganizationGroup has resolved the parent and read the group; both are of
\* the organization, and neither is compared with the other.
PostMove(q) ==
  /\ \E g, p \in Groups :
       /\ groupRow[g].org \in orgRows /\ groupRow[p].org = groupRow[g].org
       /\ GroupRequestArrives(q, [IdleGroupRequest EXCEPT !.step = "move", !.group = g, !.parent = p])
  /\ UNCHANGED <<groupRow, orgRows, membership, defaults, unused, late>>

MoveGroup(q) ==
  LET g == groupReq[q].group IN
  /\ groupReq[q].step = "move"
  /\ IF g \in Groups THEN PutBelow(g, groupReq[q].parent, groupRow[g].org)
     ELSE UNCHANGED <<groupRow, late>>
  /\ GroupRequestEnds(q)
  /\ UNCHANGED <<orgRows, membership, defaults, unused>>

\* createOrganization: the row, and then the hidden root group.
CreateOrganization(q) ==
  /\ \E o \in OrgIds \cap unused :
       /\ orgRows' = orgRows \cup {o}
       /\ unused' = unused \ {o}
       /\ GroupRequestArrives(q, [IdleGroupRequest EXCEPT !.step = "root", !.org = o])
  /\ UNCHANGED <<groupRow, membership, defaults, late>>

BeingDeleted(o) == \E q \in GroupRequests : groupReq[q].ends /\ groupReq[q].org = o

CreateOrganizationRoot(q) ==
  LET o == groupReq[q].org IN
  /\ groupReq[q].step = "root"
  /\ \E g \in GroupIds \cap unused :
       /\ groupRow' = [groupRow EXCEPT ![g] = [parent |-> NoGroup, org |-> o]]
       /\ late' = IF o \in orgRows /\ ~BeingDeleted(o) THEN late ELSE late \cup {g}
       /\ unused' = unused \ {g}
  /\ GroupRequestEnds(q)
  /\ UNCHANGED <<orgRows, membership, defaults>>

-----------------------------------------------------------------------------
(* Members and default groups: the foreign keys decide *)

\* joinGroup and joinOrganizationGroup, leaveGroup and leaveOrganizationGroup.
SetMembership(q) ==
  /\ GroupRequestServed(q)
  /\ \E m \in Groups \X GroupUsers : membership' \in {membership \cup {m}, membership \ {m}}
  /\ UNCHANGED <<groupRow, orgRows, defaults, unused, late>>

\* addDefaultGroup and removeDefaultGroup.
SetDefaultGroup(q) ==
  /\ GroupRequestServed(q)
  /\ \E g \in Groups : defaults' \in {defaults \cup {g}, defaults \ {g}}
  /\ UNCHANGED <<groupRow, orgRows, membership, unused, late>>

-----------------------------------------------------------------------------
(* Deletions *)

\* deleteGroup and deleteOrganizationGroup: the group is there.
StartDelete(q) ==
  /\ \E g \in Groups :
       GroupRequestArrives(q, [IdleGroupRequest EXCEPT !.step = "find", !.group = g])
  /\ UNCHANGED <<groupRow, orgRows, membership, defaults, unused, late>>

\* Mutant: deleteOrganization leaves the groups to organizationRepo.Delete.
StartDeleteOrganizationRow(q) ==
  /\ \E o \in orgRows :
       GroupRequestArrives(q, [IdleGroupRequest EXCEPT !.step = "deleteOrg", !.org = o])
  /\ UNCHANGED <<groupRow, orgRows, membership, defaults, unused, late>>

\* deleteOrganization: the root first, if there is one.
StartDeleteOrganization(q) ==
  /\ \E o \in orgRows :
       LET request == [IdleGroupRequest EXCEPT !.org = o, !.ends = TRUE] IN
       \/ \E g \in OrganizationRoots(o) :
            GroupRequestArrives(q, [request EXCEPT !.step = "find", !.group = g])
       \/ /\ OrganizationRoots(o) = {}
          /\ GroupRequestArrives(q, [request EXCEPT !.step = "deleteOrg"])
  /\ UNCHANGED <<groupRow, orgRows, membership, defaults, unused, late>>

\* groupRepo.Delete reads the group again; subtree begins with it.
FindForDelete(q) ==
  LET g == groupReq[q].group IN
  /\ groupReq[q].step = "find"
  /\ IF g \in Groups
     THEN groupReq' = [groupReq EXCEPT ![q].step = "walk", ![q].out = {g}, ![q].todo = {g}]
     ELSE GroupRequestEnds(q)
  /\ UNCHANGED <<groupRow, orgRows, membership, defaults, unused, late>>

\* Mutant: the walk stops at the children.
WalkChildrenOnly(q) ==
  LET g == groupReq[q].group IN
  /\ groupReq[q].step = "walk"
  /\ groupReq' = [groupReq EXCEPT ![q].step = "delete", ![q].out = {g} \cup SubGroups(g),
                                  ![q].todo = {}]
  /\ UNCHANGED <<groupRow, orgRows, membership, defaults, unused, late>>

\* subtree: the children of one group more.  A group met again is walked again.
WalkSubtree(q) ==
  /\ groupReq[q].step = "walk"
  /\ \/ \E g \in groupReq[q].todo :
          groupReq' = [groupReq EXCEPT ![q].out = @ \cup SubGroups(g),
                                       ![q].todo = (@ \ {g}) \cup SubGroups(g)]
     \/ /\ groupReq[q].todo = {}
        /\ groupReq' = [groupReq EXCEPT ![q].step = "delete"]
  /\ UNCHANGED <<groupRow, orgRows, membership, defaults, unused, late>>

\* Mutant: the memberships stay.
DeleteRowsOnly(q) ==
  LET gone == groupReq[q].out IN
  /\ groupReq[q].step = "delete"
  /\ groupRow' = [g \in GroupIds |-> IF g \in gone THEN NoGroup ELSE groupRow[g]]
  /\ defaults' = defaults \ gone
  /\ GroupRequestEnds(q)
  /\ UNCHANGED <<orgRows, membership, unused, late>>

\* The transaction; memberships and default groups cascade.
DeleteSubtree(q) ==
  LET gone == groupReq[q].out IN
  /\ groupReq[q].step = "delete"
  /\ groupRow' = [g \in GroupIds |-> IF g \in gone THEN NoGroup ELSE groupRow[g]]
  /\ membership' = {m \in membership : m[1] \notin gone}
  /\ defaults' = defaults \ gone
  /\ groupReq' = [groupReq EXCEPT ![q] = IF groupReq[q].ends
                                         THEN [groupReq[q] EXCEPT !.step = "deleteOrg", !.out = {}]
                                         ELSE OverGroupRequest]
  /\ UNCHANGED <<orgRows, unused, late>>

DeleteOrganizationRow(q) ==
  /\ groupReq[q].step = "deleteOrg"
  /\ orgRows' = orgRows \ {groupReq[q].org}
  /\ GroupRequestEnds(q)
  /\ UNCHANGED <<groupRow, membership, defaults, unused, late>>

\* The request is cancelled or the store fails.
CutGroupRequest(q) ==
  /\ groupReq[q].step \notin {"idle", "over"}
  /\ GroupRequestEnds(q)
  /\ UNCHANGED <<groupRow, orgRows, membership, defaults, unused, late>>

-----------------------------------------------------------------------------
GroupsNext ==
  \E q \in GroupRequests :
    \/ PostGroup(q) \/ InsertGroup(q) \/ PostMove(q) \/ MoveGroup(q)
    \/ CreateOrganization(q) \/ CreateOrganizationRoot(q)
    \/ SetMembership(q) \/ SetDefaultGroup(q)
    \/ StartDelete(q) \/ StartDeleteOrganization(q) \/ FindForDelete(q) \/ WalkSubtree(q)
    \/ DeleteSubtree(q) \/ DeleteOrganizationRow(q) \/ CutGroupRequest(q)

GroupsSpec == GroupsInit /\ [][GroupsNext]_groupsVars

-----------------------------------------------------------------------------
(* Properties *)

\* "never orphans a row" (subtree), "the driver suite caught a child outliving its
\* parent" (groupRepo.Delete): the parent of a group is there, unless the group
\* was put below it when a deletion had already looked into that parent.
DeleteLeavesNoOrphans ==
  \A g \in Groups : groupRow[g].parent \in Groups \cup {NoGroup} \/ g \in late

\* A group and the groups above it.
Above(g) ==
  LET up[n \in 0..Cardinality(GroupIds)] ==
        IF n = 0 THEN {g}
        ELSE up[n - 1] \cup ({groupRow[x].parent : x \in up[n - 1] \cap Groups} \ {NoGroup})
  IN up[Cardinality(GroupIds)]

\* Groups that moves have put below themselves.
Looped(g) == \E p \in Groups : g \in Above(p) /\ p \in Above(g) /\ groupRow[g].parent = p

\* "The organization's groups go with it" (deleteOrganization): no group outlives
\* its organization, unless it lies below one that came too late or in a loop that
\* moves have cut off from the root.
OrganizationGroupsGo ==
  \A g \in Groups :
    \/ groupRow[g].org \in orgRows \cup {NoGroup}
    \/ \E a \in Above(g) : a \in late \/ Looped(a)
=============================================================================
