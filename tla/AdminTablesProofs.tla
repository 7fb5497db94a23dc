------------------------- MODULE AdminTablesProofs --------------------------
(***************************************************************************)
(* Theorems about the role and group tables, for any number of roles, groups*)
(* and requests: the composite flags and what a token reaches through them,*)
(* the subtree walks, and the groups of organizations.                     *)
(***************************************************************************)
EXTENDS CompositeRoles, GroupTree, FiniteSetTheorems, WellFoundedInduction, TLAPS

-----------------------------------------------------------------------------
(* Least numbers *)

LEMMA LeastNumber ==
  ASSUME NEW T \in SUBSET Nat, T # {}
  PROVE  \E i \in T : \A j \in T : i <= j
<1> DEFINE Below == {ss \in Nat \X Nat : ss[1] < ss[2]}
<1>1. IsWellFoundedOn(Below, Nat)
  BY NatLessThanWellFounded DEF OpToRel
<1>2. \A i, j \in Nat : <<j, i>> \notin Below => i <= j
  OBVIOUS
<1> HIDE DEF Below
<1>3. PICK i \in T : \A j \in T : ~ (<<j, i>> \in Below)
  BY <1>1, WFMin
<1> QED
  BY <1>2, <1>3

\* A set of levels that holds the first, and with every level the next, holds all:
\* of the levels that are not in it one would be the least.
LEMMA LevelInduction ==
  ASSUME NEW N \in Nat, NEW S, 0 \in S, \A n \in 0..N : n \in S /\ n < N => n + 1 \in S
  PROVE  0..N \subseteq S
<1> SUFFICES ASSUME 0..N \ S # {} PROVE FALSE
  OBVIOUS
<1>1. PICK T : T = 0..N \ S
  OBVIOUS
<1>2. PICK i \in T : \A j \in T : i <= j
  BY <1>1, LeastNumber, 0..N \subseteq Nat
<1>3. i \in 0..N /\ i \notin S /\ i # 0
  BY <1>1, <1>2
<1>4. i - 1 \in 0..N /\ i - 1 < N /\ (i - 1) + 1 = i /\ ~(i <= i - 1)
  BY <1>3
<1>5. i - 1 \in S
  BY <1>1, <1>2, <1>4
<1> QED
  BY <1>3, <1>4, <1>5
-----------------------------------------------------------------------------
(* Roles: requests and types *)

HasChildren(r) == ChildrenOf(r) # {}

\* A request that is under way names a role that was created.
RolesStand ==
  \A q \in RoleRequests :
    /\ roleReq[q].step \in {"idle", "over"} => roleReq[q].role = NoRole
    /\ roleReq[q].step \in {"apply", "write"} => roleReq[q].role \in Roles \ unborn
    /\ roleReq[q].step = "apply" => roleReq[q].kind # "update"

\* A role that is not there yet is not composite.
UnbornPlain == \A r \in unborn : composite[r] = FALSE

\* What a request still knows of the role it holds.
Carries(q) ==
  LET r == roleReq[q].role IN
  \/ roleReq[q].step = "apply" /\ roleReq[q].flag = composite[r]
  \/ roleReq[q].step = "write" /\ roleReq[q].kind # "update" /\ roleReq[q].flag = HasChildren(r)
  \/ /\ roleReq[q].step = "write" /\ roleReq[q].kind = "update"
     /\ roleReq[q].flag = composite[r] /\ composite[r] = HasChildren(r)

\* A role on which no two writers met: one request holds it and knows where it
\* stands, or its flag agrees with its children.
Sound(r) ==
  \/ r \in clash
  \/ /\ \A q \in RoleRequests : roleReq[q].role = r => Carries(q)
     /\ \A p, q \in RoleRequests : roleReq[p].role = r /\ roleReq[q].role = r => p = q
     /\ ~Busy(r) => composite[r] = HasChildren(r)

RolesInv ==
  /\ RolesTypeOK
  /\ RolesStand
  /\ UnbornPlain
  /\ \A r \in roleRows : Sound(r)

LEMMA RoleRequestTypes ==
  /\ IdleRoleRequest \in RoleRequest /\ OverRoleRequest \in RoleRequest
  /\ IdleRoleRequest.step = "idle" /\ IdleRoleRequest.role = NoRole
  /\ OverRoleRequest.step = "over" /\ OverRoleRequest.role = NoRole
BY DEF IdleRoleRequest, OverRoleRequest, RoleRequest, RoleSteps, RoleKinds

\* Only request q moves.
RoleMoves(q, n) ==
  /\ roleReq' = [roleReq EXCEPT ![q] = n]
  /\ n \in RoleRequest
  /\ n.step \in {"idle", "over"} => n.role = NoRole
  /\ n.step \in {"apply", "write"} => n.role \in Roles \ unborn
  /\ n.step = "apply" => n.kind # "update"

LEMMA RoleMoved ==
  ASSUME RolesInv, NEW q \in RoleRequests, NEW n, RoleMoves(q, n), unborn' \subseteq unborn
  PROVE  /\ roleReq' \in [RoleRequests -> RoleRequest] /\ RolesStand'
         /\ roleReq'[q] = n /\ \A p \in RoleRequests \ {q} : roleReq'[p] = roleReq[p]
BY DEF RolesInv, RolesTypeOK, RolesStand, RoleMoves

\* A role that request q neither holds nor takes, and that nobody writes.
LEMMA OthersSound ==
  ASSUME NEW x, Sound(x), NEW q \in RoleRequests, roleReq[q].role # x, roleReq'[q].role # x,
         \A p \in RoleRequests \ {q} : roleReq'[p] = roleReq[p],
         composite'[x] = composite[x], HasChildren(x)' = HasChildren(x), clash \subseteq clash'
  PROVE  Sound(x)'
<1>1. \A p \in RoleRequests : roleReq'[p].role = x => p # q /\ roleReq'[p] = roleReq[p] /\ roleReq[p].role = x
  OBVIOUS
<1>2. Busy(x)' <=> Busy(x)
  BY <1>1 DEF Busy
<1>3. \A p \in RoleRequests : roleReq'[p].role = x /\ Carries(p) => Carries(p)'
  BY <1>1 DEF Carries
<1> QED BY <1>1, <1>2, <1>3 DEF Sound

\* The role of a request that goes on.
LEMMA HeldSound ==
  ASSUME NEW q \in RoleRequests, Sound(roleReq[q].role), roleReq'[q].role = roleReq[q].role,
         \A p \in RoleRequests \ {q} : roleReq'[p] = roleReq[p],
         clash \subseteq clash', Carries(q) => Carries(q)'
  PROVE  Sound(roleReq[q].role)'
<1> DEFINE r == roleReq[q].role
<1>1. CASE r \in clash
  BY <1>1 DEF Sound
<1>2. CASE r \notin clash
  <2>1. Carries(q) /\ \A p \in RoleRequests : roleReq[p].role = r => p = q
    BY <1>2 DEF Sound
  <2>2. \A p \in RoleRequests : roleReq'[p].role = r => p = q
    BY <2>1
  <2>3. Busy(r)'
    BY DEF Busy
  <2> QED BY <2>1, <2>2, <2>3 DEF Sound
<1> QED BY <1>1, <1>2

\* The role of a request that ends.
LEMMA ReleasedSound ==
  ASSUME NEW q \in RoleRequests, NEW r, r = roleReq[q].role, Sound(r), roleReq'[q].role # r,
         \A p \in RoleRequests \ {q} : roleReq'[p] = roleReq[p],
         clash \subseteq clash', r \in clash' \/ (Carries(q) => composite'[r] = HasChildren(r)')
  PROVE  Sound(r)'
<1>1. CASE r \in clash'
  BY <1>1 DEF Sound
<1>2. CASE r \notin clash'
  <2>1. Carries(q) /\ \A p \in RoleRequests : roleReq[p].role = r => p = q
    BY <1>2 DEF Sound
  <2>2. \A p \in RoleRequests : roleReq'[p].role # r
    BY <2>1
  <2>3. composite'[r] = HasChildren(r)'
    BY <1>2, <2>1
  <2> QED BY <2>2, <2>3 DEF Sound
<1> QED BY <1>1, <1>2

\* The role of a request that arrives.
LEMMA TakenSound ==
  ASSUME NEW q \in RoleRequests, NEW r, Sound(r), roleReq'[q].role = r,
         \A p \in RoleRequests \ {q} : roleReq'[p] = roleReq[p],
         clash' = IF Busy(r) THEN clash \cup {r} ELSE clash,
         ~Busy(r) /\ composite[r] = HasChildren(r) => Carries(q)'
  PROVE  Sound(r)'
<1>1. CASE Busy(r) \/ r \in clash
  BY <1>1 DEF Sound
<1>2. CASE ~Busy(r) /\ r \notin clash
  <2>1. \A p \in RoleRequests : roleReq[p].role # r
    BY <1>2 DEF Busy
  <2>2. Carries(q)'
    BY <1>2 DEF Sound
  <2>3. \A p \in RoleRequests : roleReq'[p].role = r => p = q
    BY <2>1
  <2>4. Busy(r)'
    BY DEF Busy
  <2> QED BY <2>2, <2>3, <2>4 DEF Sound
<1> QED BY <1>1, <1>2

-----------------------------------------------------------------------------
(* Roles: the actions *)

LEMMA CreateRoleKeeps ==
  ASSUME RolesInv, CreateRole
  PROVE  RolesInv'
<1>1. PICK r \in unborn : unborn' = unborn \ {r} /\ roleRows' = roleRows \cup {r}
  BY DEF CreateRole
<1>2. UNCHANGED <<composite, children, roleReq, clash>>
  BY DEF CreateRole
<1>3. r \in Roles /\ r # NoRole /\ r \notin roleRows /\ composite[r] = FALSE
  BY CompositeRolesAssumption DEF RolesInv, RolesTypeOK, UnbornPlain
<1>4. RolesTypeOK' /\ RolesStand' /\ UnbornPlain'
  BY <1>1, <1>2, <1>3 DEF RolesInv, RolesTypeOK, RolesStand, UnbornPlain
<1>5. \A x : (Sound(x)' <=> Sound(x)) /\ HasChildren(x)' = HasChildren(x)
  BY <1>2 DEF Sound, Carries, Busy, HasChildren, ChildrenOf
<1>6. Sound(r)
  <2>1. \A q \in RoleRequests : roleReq[q].role # r
    BY <1>1, <1>3 DEF RolesInv, RolesTypeOK, RolesStand, RoleRequest, RoleSteps
  <2>2. ChildrenOf(r) = {}
    BY <1>3 DEF ChildrenOf, RolesInv, RolesTypeOK
  <2> QED BY <1>3, <2>1, <2>2 DEF Sound, HasChildren
<1> QED BY <1>1, <1>4, <1>5, <1>6 DEF RolesInv

LEMMA LocateKeeps ==
  ASSUME RolesInv, NEW q \in RoleRequests, LocateForComposites(q) \/ LocateForUpdate(q)
  PROVE  RolesInv'
<1>0. UNCHANGED <<unborn, roleRows, composite, children>> /\ roleReq[q].step = "idle"
  BY DEF LocateForComposites, LocateForUpdate
<1>1. PICK r \in roleRows, n \in RoleRequest :
        /\ roleReq' = [roleReq EXCEPT ![q] = n] /\ n.role = r /\ n.flag = composite[r]
        /\ (n.step = "apply" /\ n.kind # "update") \/ (n.step = "write" /\ n.kind = "update")
        /\ clash' = IF Busy(r) THEN clash \cup {r} ELSE clash
  <2>1. CASE LocateForComposites(q)
    <3>1. PICK r \in roleRows \ OwnRoles, kind \in {"add", "remove"}, batch \in SUBSET roleRows :
            /\ roleReq' = [roleReq EXCEPT ![q] = [step |-> "apply", kind |-> kind, role |-> r,
                                                  flag |-> composite[r], batch |-> batch]]
            /\ clash' = IF Busy(r) THEN clash \cup {r} ELSE clash
      BY <2>1 DEF LocateForComposites
    <3> DEFINE n == [step |-> "apply", kind |-> kind, role |-> r, flag |-> composite[r], batch |-> batch]
    <3>2. n \in RoleRequest /\ n.role = r /\ n.flag = composite[r] /\ n.step = "apply" /\ n.kind # "update"
      BY DEF RolesInv, RolesTypeOK, RoleRequest, RoleSteps, RoleKinds
    <3> HIDE DEF n
    <3>3. roleReq' = [roleReq EXCEPT ![q] = n]
      BY <3>1 DEF n
    <3> QED BY <3>1, <3>2, <3>3
  <2>2. CASE LocateForUpdate(q)
    <3>1. PICK r \in roleRows :
            /\ roleReq' = [roleReq EXCEPT ![q] = [IdleRoleRequest EXCEPT !.step = "write", !.role = r,
                                                                         !.flag = composite[r]]]
            /\ clash' = IF Busy(r) THEN clash \cup {r} ELSE clash
      BY <2>2 DEF LocateForUpdate
    <3> DEFINE n == [IdleRoleRequest EXCEPT !.step = "write", !.role = r, !.flag = composite[r]]
    <3>2. n \in RoleRequest /\ n.role = r /\ n.flag = composite[r] /\ n.step = "write" /\ n.kind = "update"
      BY DEF RolesInv, RolesTypeOK, RoleRequest, RoleSteps, RoleKinds, IdleRoleRequest
    <3> HIDE DEF n
    <3>3. roleReq' = [roleReq EXCEPT ![q] = n]
      BY <3>1 DEF n
    <3> QED BY <3>1, <3>2, <3>3
  <2> QED BY <2>1, <2>2
<1>2. r \in Roles \ unborn /\ r # NoRole
  BY CompositeRolesAssumption DEF RolesInv, RolesTypeOK
<1>3. RoleMoves(q, n)
  BY <1>1, <1>2 DEF RoleMoves
<1>4. /\ roleReq' \in [RoleRequests -> RoleRequest] /\ RolesStand'
      /\ roleReq'[q] = n /\ \A p \in RoleRequests \ {q} : roleReq'[p] = roleReq[p]
  BY <1>0, <1>3, RoleMoved
<1>5. RolesTypeOK' /\ UnbornPlain'
  BY <1>0, <1>1, <1>2, <1>4 DEF RolesInv, RolesTypeOK, UnbornPlain
<1>6. \A x : HasChildren(x)' = HasChildren(x)
  BY <1>0 DEF HasChildren, ChildrenOf
<1>7. roleReq[q].role = NoRole
  BY <1>0 DEF RolesInv, RolesStand
<1>8. Sound(r)'
  <2>1. composite[r] = HasChildren(r) => Carries(q)'
    BY <1>0, <1>1, <1>4, <1>6 DEF Carries
  <2> QED BY <1>1, <1>4, <2>1, TakenSound DEF RolesInv
<1>9. \A x \in roleRows : x # r => Sound(x)'
  <2>1. \A x \in roleRows : x # NoRole
    BY CompositeRolesAssumption DEF RolesInv, RolesTypeOK
  <2> QED BY <1>0, <1>1, <1>4, <1>6, <1>7, <2>1, OthersSound DEF RolesInv
<1> QED BY <1>0, <1>4, <1>5, <1>8, <1>9 DEF RolesInv

\* A step of a request that holds a role: the flags and the children of the other
\* roles stay as they are.
LEMMA WriterKeeps ==
  ASSUME RolesInv, NEW q \in RoleRequests, NEW r, r = roleReq[q].role, NEW n, RoleMoves(q, n),
         roleReq[q].step \in {"apply", "write"},
         UNCHANGED <<unborn, roleRows>>, clash \subseteq clash', clash' \subseteq Roles,
         composite' \in [Roles -> BOOLEAN], children' \subseteq roleRows \X roleRows,
         \A x \in Roles : x # r => composite'[x] = composite[x] /\ HasChildren(x)' = HasChildren(x),
         \/ n.role = r /\ (Carries(q) => Carries(q)')
         \/ n.role = NoRole /\ (r \in clash' \/ r \notin roleRows \/ (Carries(q) => composite'[r] = HasChildren(r)'))
  PROVE  RolesInv'
<1>1. /\ roleReq' \in [RoleRequests -> RoleRequest] /\ RolesStand'
      /\ roleReq'[q] = n /\ \A p \in RoleRequests \ {q} : roleReq'[p] = roleReq[p]
  BY RoleMoved
<1>2. r \in Roles \ unborn /\ r # NoRole
  BY CompositeRolesAssumption DEF RolesInv, RolesStand
<1>3. RolesTypeOK'
  BY <1>1 DEF RolesInv, RolesTypeOK
<1>4. UnbornPlain'
  BY <1>2 DEF RolesInv, RolesTypeOK, UnbornPlain
<1>5. ASSUME NEW x \in roleRows, x # r PROVE Sound(x)'
  <2>1. x \in Roles /\ x # NoRole /\ n.role # x
    BY <1>5, CompositeRolesAssumption DEF RolesInv, RolesTypeOK
  <2>2. Sound(x)
    BY DEF RolesInv
  <2> QED BY <1>1, <1>5, <2>1, <2>2, OthersSound
<1>6. ASSUME r \in roleRows PROVE Sound(r)'
  <2>1. Sound(r)
    BY <1>6 DEF RolesInv
  <2>2. CASE n.role = r /\ (Carries(q) => Carries(q)')
    <3>1. roleReq'[q].role = r
      BY <1>1, <2>2
    <3> QED BY <1>1, <2>1, <2>2, <3>1, HeldSound
  <2>3. CASE n.role = NoRole /\ (r \in clash' \/ (Carries(q) => composite'[r] = HasChildren(r)'))
    <3>1. roleReq'[q].role # r
      BY <1>1, <1>2, <2>3
    <3> QED BY <1>1, <2>1, <2>3, <3>1, ReleasedSound
  <2> QED BY <1>6, <2>2, <2>3
<1> QED BY <1>1, <1>3, <1>4, <1>5, <1>6 DEF RolesInv

LEMMA ApplyKeeps ==
  ASSUME RolesInv, NEW q \in RoleRequests, AddComposite(q) \/ RemoveComposite(q)
  PROVE  RolesInv'
<1>1. PICK r : r = roleReq[q].role
  OBVIOUS
<1>2. /\ roleReq[q].step = "apply" /\ UNCHANGED <<unborn, roleRows, composite, clash>>
      /\ roleReq[q].kind # "update" /\ roleReq[q] \in RoleRequest /\ r \in Roles \ unborn
  BY <1>1 DEF AddComposite, RemoveComposite, RolesInv, RolesTypeOK, RolesStand
<1>3. children' \subseteq roleRows \X roleRows
  BY <1>1 DEF AddComposite, RemoveComposite, RolesInv, RolesTypeOK
<1>4. \A x, y \in Roles : x # r => (<<x, y>> \in children' <=> <<x, y>> \in children)
  BY <1>1 DEF AddComposite, RemoveComposite
<1>5. \A x \in Roles : x # r => HasChildren(x)' = HasChildren(x)
  BY <1>4 DEF HasChildren, ChildrenOf
<1>6. PICK b \in SUBSET Roles : roleReq' = [roleReq EXCEPT ![q].batch = b]
  BY <1>2 DEF AddComposite, RemoveComposite, RoleRequest
<1> DEFINE n == [roleReq[q] EXCEPT !.batch = b]
<1>7. /\ n \in RoleRequest /\ n.step = "apply" /\ n.role = r /\ n.kind # "update" /\ n.flag = roleReq[q].flag
      /\ roleReq' = [roleReq EXCEPT ![q] = n]
  BY <1>1, <1>2, <1>6 DEF RoleRequest
<1> HIDE DEF n
<1>8. RoleMoves(q, n)
  BY <1>2, <1>7 DEF RoleMoves
<1>9. Carries(q) => Carries(q)'
  <2>1. roleReq'[q] = n
    BY <1>7 DEF RolesInv, RolesTypeOK
  <2> QED BY <1>1, <1>2, <1>7, <2>1 DEF Carries
<1>10. composite' \in [Roles -> BOOLEAN] /\ clash' \subseteq Roles
  BY <1>2 DEF RolesInv, RolesTypeOK
<1> QED BY <1>1, <1>2, <1>3, <1>5, <1>7, <1>8, <1>9, <1>10, WriterKeeps

LEMMA SyncKeeps ==
  ASSUME RolesInv, NEW q \in RoleRequests, SyncCompositeFlag(q)
  PROVE  RolesInv'
<1>1. PICK r : r = roleReq[q].role
  OBVIOUS
<1>2. /\ roleReq[q].step = "apply" /\ UNCHANGED <<unborn, roleRows, composite, children, clash>>
      /\ roleReq[q].kind # "update" /\ roleReq[q] \in RoleRequest /\ r \in Roles \ unborn
  BY <1>1 DEF SyncCompositeFlag, RolesInv, RolesTypeOK, RolesStand
<1>3. \A x : HasChildren(x)' = HasChildren(x)
  BY <1>2 DEF HasChildren, ChildrenOf
<1>4. composite' \in [Roles -> BOOLEAN] /\ clash' \subseteq Roles /\ children' \subseteq roleRows \X roleRows
  BY <1>2 DEF RolesInv, RolesTypeOK
<1>5. CASE roleReq[q].flag = HasChildren(r) /\ roleReq' = [roleReq EXCEPT ![q] = OverRoleRequest]
  <2>1. RoleMoves(q, OverRoleRequest) /\ OverRoleRequest.role = NoRole
    BY <1>5, RoleRequestTypes DEF RoleMoves
  <2>2. Carries(q) => composite[r] = HasChildren(r)
    BY <1>1, <1>2, <1>5 DEF Carries
  <2>3. Carries(q) => composite'[r] = HasChildren(r)'
    BY <1>2, <1>3, <2>2
  <2> QED BY <1>1, <1>2, <1>3, <1>4, <2>1, <2>3, WriterKeeps
<1>6. CASE roleReq[q].flag # HasChildren(r)
           /\ roleReq' = [roleReq EXCEPT ![q] = [roleReq[q] EXCEPT !.step = "write", !.flag = HasChildren(r)]]
  <2> DEFINE n == [roleReq[q] EXCEPT !.step = "write", !.flag = HasChildren(r)]
  <2>0. HasChildren(r) \in BOOLEAN
    BY DEF HasChildren
  <2>1. n \in RoleRequest /\ n.step = "write" /\ n.role = r /\ n.kind # "update" /\ n.flag = HasChildren(r)
    BY <1>1, <1>2, <2>0 DEF RoleRequest, RoleSteps
  <2> HIDE DEF n
  <2>2. RoleMoves(q, n)
    BY <1>2, <1>6, <2>1 DEF RoleMoves, n
  <2>3. roleReq'[q] = n
    BY <1>6 DEF RolesInv, RolesTypeOK, n
  <2>4. Carries(q)'
    BY <1>3, <2>1, <2>3 DEF Carries
  <2> QED BY <1>1, <1>2, <1>3, <1>4, <2>1, <2>2, <2>4, WriterKeeps
<1> QED BY <1>1, <1>5, <1>6 DEF SyncCompositeFlag, HasChildren

LEMMA UpdateRoleKeeps ==
  ASSUME RolesInv, NEW q \in RoleRequests, UpdateRole(q)
  PROVE  RolesInv'
<1>1. PICK r : r = roleReq[q].role
  OBVIOUS
<1>2. /\ roleReq[q].step = "write" /\ UNCHANGED <<unborn, roleRows, children, clash>>
      /\ roleReq[q].flag \in BOOLEAN /\ r \in Roles \ unborn
      /\ composite' = IF r \in roleRows THEN [composite EXCEPT ![r] = roleReq[q].flag] ELSE composite
  BY <1>1 DEF UpdateRole, RolesInv, RolesTypeOK, RolesStand, RoleRequest
<1>3. \A x : HasChildren(x)' = HasChildren(x)
  BY <1>2 DEF HasChildren, ChildrenOf
<1>4. /\ composite' \in [Roles -> BOOLEAN] /\ clash' \subseteq Roles /\ children' \subseteq roleRows \X roleRows
      /\ \A x \in Roles : x # r => composite'[x] = composite[x]
      /\ r \in roleRows => composite'[r] = roleReq[q].flag
  BY <1>2 DEF RolesInv, RolesTypeOK
<1>5. RoleMoves(q, OverRoleRequest) /\ OverRoleRequest.role = NoRole
  BY RoleRequestTypes DEF RoleMoves, UpdateRole
<1>6. Carries(q) => roleReq[q].flag = HasChildren(r)
  BY <1>1, <1>2 DEF Carries
<1>7. r \notin roleRows \/ (Carries(q) => composite'[r] = HasChildren(r)')
  BY <1>3, <1>4, <1>6
<1> QED BY <1>1, <1>2, <1>3, <1>4, <1>5, <1>7, WriterKeeps

LEMMA CutRoleKeeps ==
  ASSUME RolesInv, NEW q \in RoleRequests, CutRoleRequest(q)
  PROVE  RolesInv'
<1>1. PICK r : r = roleReq[q].role
  OBVIOUS
<1>2. /\ roleReq[q].step \in {"apply", "write"} /\ UNCHANGED <<unborn, roleRows, composite, children>>
      /\ clash' = IF roleReq[q].kind = "update" THEN clash ELSE clash \cup {r}
  BY <1>1 DEF CutRoleRequest, RolesInv, RolesTypeOK, RoleRequest, RoleSteps
<1>3. \A x : HasChildren(x)' = HasChildren(x)
  BY <1>2 DEF HasChildren, ChildrenOf
<1>4. r \in Roles /\ (roleReq[q].step = "apply" => roleReq[q].kind # "update")
  BY <1>1, <1>2 DEF RolesInv, RolesStand
<1>5. /\ composite' \in [Roles -> BOOLEAN] /\ clash' \subseteq Roles /\ clash \subseteq clash'
      /\ children' \subseteq roleRows \X roleRows
  BY <1>2, <1>4 DEF RolesInv, RolesTypeOK
<1>6. RoleMoves(q, OverRoleRequest) /\ OverRoleRequest.role = NoRole
  BY RoleRequestTypes DEF RoleMoves, CutRoleRequest
<1>7. r \in clash' \/ (Carries(q) => composite[r] = HasChildren(r))
  BY <1>1, <1>2, <1>4 DEF Carries
<1>8. r \in clash' \/ (Carries(q) => composite'[r] = HasChildren(r)')
  BY <1>2, <1>3, <1>7
<1> QED BY <1>1, <1>2, <1>3, <1>5, <1>6, <1>8, WriterKeeps

LEMMA DeleteRoleKeeps ==
  ASSUME RolesInv, NEW r \in Roles, DeleteRole(r)
  PROVE  RolesInv'
<1>1. /\ r \in roleRows /\ roleRows' = roleRows \ {r} /\ UNCHANGED <<unborn, roleReq>>
      /\ composite' = [p \in Roles |-> composite[p] /\ p # r /\ ~(p \in ParentsOf(r) /\ ChildrenOf(p) = {r})]
      /\ children' = {e \in children : r \notin {e[1], e[2]}}
      /\ clash' = clash \cup {p \in ParentsOf(r) : Busy(p)}
  BY DEF DeleteRole
<1>2. RolesTypeOK'
  <2>1. children' \in SUBSET (roleRows' \X roleRows')
    BY <1>1 DEF RolesInv, RolesTypeOK
  <2>2. clash' \in SUBSET Roles
    BY <1>1 DEF RolesInv, RolesTypeOK, ParentsOf
  <2> QED BY <1>1, <2>1, <2>2 DEF RolesInv, RolesTypeOK
<1>3. RolesStand'
  BY <1>1 DEF RolesInv, RolesStand
<1>4. UnbornPlain'
  BY <1>1 DEF RolesInv, RolesTypeOK, UnbornPlain
<1>5. ASSUME NEW x \in roleRows, x # r PROVE Sound(x)'
  <2>0. x \in Roles /\ Sound(x) /\ (Busy(x)' <=> Busy(x)) /\ composite[x] \in BOOLEAN
    BY <1>1 DEF RolesInv, RolesTypeOK, Busy
  <2>1. CASE x \in ParentsOf(r) /\ Busy(x)
    BY <1>1, <2>1 DEF Sound
  <2>2. CASE x \notin ParentsOf(r)
    <3>1. ChildrenOf(x)' = ChildrenOf(x)
      <4>1. <<x, r>> \notin children
        BY <2>0, <2>2 DEF ParentsOf
      <4>2. \A c \in Roles : <<x, c>> \in children' <=> <<x, c>> \in children
        BY <1>1, <1>5, <4>1
      <4> QED BY <4>2 DEF ChildrenOf
    <3>2. composite'[x] = composite[x] /\ HasChildren(x)' = HasChildren(x)
      BY <1>1, <1>5, <2>0, <2>2, <3>1 DEF HasChildren
    <3>3. \A q \in RoleRequests : roleReq[q].role = x /\ Carries(q) => Carries(q)'
      BY <1>1, <3>2 DEF Carries
    <3>4. clash \subseteq clash'
      BY <1>1
    <3> QED BY <1>1, <2>0, <3>2, <3>3, <3>4 DEF Sound
  <2>3. CASE x \in ParentsOf(r) /\ ~Busy(x)
    <3>1. ChildrenOf(x)' = ChildrenOf(x) \ {r} /\ r \in ChildrenOf(x)
      BY <1>1, <1>5, <2>3 DEF ChildrenOf, ParentsOf
    <3>2. CASE x \in clash
      BY <1>1, <3>2 DEF Sound
    <3>3. CASE x \notin clash
      <4>1. composite[x] = HasChildren(x)
        BY <2>0, <2>3, <3>3 DEF Sound
      <4>2. composite[x] = TRUE
        BY <2>0, <3>1, <4>1 DEF HasChildren
      <4>3. composite'[x] = (ChildrenOf(x) # {r})
        BY <1>1, <1>5, <2>0, <2>3, <4>2
      <4>4. (ChildrenOf(x) # {r}) = (ChildrenOf(x)' # {})
        BY <3>1
      <4>5. composite'[x] = HasChildren(x)'
        BY <4>3, <4>4 DEF HasChildren
      <4>6. \A q \in RoleRequests : roleReq'[q].role # x
        BY <1>1, <2>3 DEF Busy
      <4> QED BY <4>5, <4>6 DEF Sound
    <3> QED BY <3>2, <3>3
  <2> QED BY <2>1, <2>2, <2>3
<1> QED BY <1>1, <1>2, <1>3, <1>4, <1>5 DEF RolesInv

-----------------------------------------------------------------------------
(* Roles: theorems *)

LEMMA RolesStart == RolesInit => RolesInv
<1> SUFFICES ASSUME RolesInit PROVE RolesInv
  OBVIOUS
<1>1. RolesTypeOK
  BY CompositeRolesAssumption, RoleRequestTypes DEF RolesInit, RolesTypeOK
<1>2. RolesStand /\ UnbornPlain
  BY CompositeRolesAssumption, RoleRequestTypes DEF RolesInit, RolesStand, UnbornPlain
<1>3. ASSUME NEW r \in roleRows PROVE Sound(r)
  <2>1. r \in Roles /\ r # NoRole /\ composite[r] = FALSE /\ ChildrenOf(r) = {}
    BY CompositeRolesAssumption DEF RolesInit, ChildrenOf
  <2>2. \A q \in RoleRequests : roleReq[q].role # r
    BY <2>1, RoleRequestTypes DEF RolesInit
  <2> QED BY <2>1, <2>2 DEF Sound, HasChildren
<1> QED BY <1>1, <1>2, <1>3 DEF RolesInv

LEMMA RolesStep == RolesInv /\ [RolesNext]_rolesVars => RolesInv'
<1> SUFFICES ASSUME RolesInv, [RolesNext]_rolesVars PROVE RolesInv'
  OBVIOUS
<1>1. CASE UNCHANGED rolesVars
  <2>1. UNCHANGED <<unborn, roleRows, composite, children, roleReq, clash>>
    BY <1>1 DEF rolesVars
  <2>2. RolesTypeOK' /\ RolesStand' /\ UnbornPlain'
    BY <2>1 DEF RolesInv, RolesTypeOK, RolesStand, UnbornPlain
  <2>3. \A x : Sound(x)' <=> Sound(x)
    BY <2>1 DEF Sound, Carries, Busy, HasChildren, ChildrenOf
  <2> QED BY <2>1, <2>2, <2>3 DEF RolesInv
<1>2. CASE RolesNext
  BY <1>2, CreateRoleKeeps, LocateKeeps, ApplyKeeps, SyncKeeps, UpdateRoleKeeps, CutRoleKeeps, DeleteRoleKeeps
     DEF RolesNext
<1> QED BY <1>1, <1>2

\* Every variable of the role tables keeps its type, and composite_role never names a
\* role that is gone: the foreign keys of both ends.
THEOREM RolesTypeCorrect == RolesSpec => []RolesTypeOK
<1>1. RolesInv => RolesTypeOK
  BY DEF RolesInv
<1> QED BY <1>1, RolesStart, RolesStep, PTL DEF RolesSpec

\* eachComposite, syncCompositeFlag, applyRoleUpdate and roleRepo.Delete: the composite
\* column of a role agrees with its children whenever no request holds the role and no
\* two writers ever met on it, whatever happens to other roles meanwhile.
THEOREM FlagsFollow == RolesSpec => []FlagFollowsChildren
<1>1. RolesInv => FlagFollowsChildren
  BY DEF RolesInv, Sound, HasChildren, FlagFollowsChildren
<1> QED BY <1>1, RolesStart, RolesStep, PTL DEF RolesSpec
-----------------------------------------------------------------------------
(* Roles: the walk over composites *)

WalkStart(direct) == [seen |-> {}, queue |-> direct]

\* The walk as ExpandFrom defines it is there, and it is the first level and the
\* steps from each to the next.
LEMMA WalkIs ==
  ASSUME NEW direct
  PROVE  \E w : /\ w = [n \in 0..Cardinality(Roles) |-> IF n = 0 THEN WalkStart(direct) ELSE WalkLevel(w[n - 1])]
                /\ ExpandFrom(direct) = w[Cardinality(Roles)].seen
<1>1. PICK N \in Nat : N = Cardinality(Roles)
  BY CompositeRolesAssumption, FS_CardinalityType
<1> DEFINE Is(f, m) == f = [n \in 0..m |-> IF n = 0 THEN WalkStart(direct) ELSE WalkLevel(f[n - 1])]
           S == {m \in 0..N : \E f : Is(f, m)}
<1>2. 0 \in S
  <2>1. PICK f : f = [n \in 0..0 |-> WalkStart(direct)]
    OBVIOUS
  <2>2. Is(f, 0)
    BY <2>1
  <2> QED
    BY <2>2
<1>3. ASSUME NEW m \in 0..N, m \in S, m < N PROVE m + 1 \in S
  <2>1. PICK f : Is(f, m)
    BY <1>3
  <2>2. PICK g : g = [n \in 0..(m + 1) |-> IF n = m + 1 THEN WalkLevel(f[m]) ELSE f[n]]
    OBVIOUS
  <2>3. \A n \in 0..m : g[n] = f[n]
    BY <2>2
  <2>4. ASSUME NEW n \in 0..(m + 1) PROVE g[n] = IF n = 0 THEN WalkStart(direct) ELSE WalkLevel(g[n - 1])
    <3>1. CASE n = m + 1
      <4>1. n # 0 /\ n - 1 = m /\ m \in 0..m
        BY <3>1
      <4> QED
        BY <2>2, <2>3, <3>1, <4>1
    <3>2. CASE n \in 0..m
      <4>1. g[n] = IF n = 0 THEN WalkStart(direct) ELSE WalkLevel(f[n - 1])
        BY <2>1, <2>3, <3>2
      <4>2. n # 0 => n - 1 \in 0..m
        BY <3>2
      <4> QED
        BY <2>3, <4>1, <4>2
    <3> QED
      BY <3>1, <3>2
  <2>5. Is(g, m + 1)
    BY <2>2, <2>4
  <2> QED
    BY <1>3, <2>5
<1>4. 0..N \subseteq S
  <2> HIDE DEF S
  <2> QED
    BY <1>2, <1>3, LevelInduction
<1>5. PICK f : Is(f, N)
  BY <1>4
<1> DEFINE w == CHOOSE f2 : Is(f2, N)
<1>6. Is(w, N)
  BY <1>5
<1>7. ExpandFrom(direct) = w[N].seen
  BY <1>1 DEF ExpandFrom, WalkStart
<1> QED
  BY <1>1, <1>6, <1>7

\* The closure: what every closed set that holds the direct roles holds.
LEMMA ReachableIs ==
  ASSUME RolesTypeOK, NEW direct \in SUBSET Roles
  PROVE  LET reached == Reachable(Closed, direct) IN
         /\ direct \subseteq reached /\ reached \subseteq Roles
         /\ \A r \in reached : ChildrenOf(r) \subseteq reached
         /\ \A t \in SUBSET Roles : direct \subseteq t /\ (\A r \in t : ChildrenOf(r) \subseteq t) => reached \subseteq t
<1>1. PICK closed : closed = Closed
  OBVIOUS
<1>2. \A t : t \in closed <=> t \in SUBSET Roles /\ \A r \in t : ChildrenOf(r) \subseteq t
  BY <1>1 DEF Closed
<1>3. \A r : ChildrenOf(r) \subseteq Roles
  BY DEF ChildrenOf
<1> QED
  BY <1>1, <1>2, <1>3 DEF Reachable

\* What the walk has come to after some levels.
Walking(s, direct) ==
  LET reached == Reachable(Closed, direct) IN
  /\ s.seen \subseteq reached /\ s.queue \subseteq reached
  /\ direct \subseteq s.seen \cup s.queue
  /\ \A r \in s.seen : composite[r] => ChildrenOf(r) \subseteq s.seen \cup s.queue

\* Each level adds a role, until there is none to add.
Progress(s, n) == s.queue \subseteq s.seen \/ n <= Cardinality(s.seen)

LEMMA LevelStep ==
  ASSUME RolesTypeOK, NEW direct \in SUBSET Roles, NEW s, Walking(s, direct), NEW n \in Nat, Progress(s, n)
  PROVE  Walking(WalkLevel(s), direct) /\ Progress(WalkLevel(s), n + 1)
<1>1. PICK reached : reached = Reachable(Closed, direct)
  OBVIOUS
<1>2. reached \subseteq Roles /\ \A r \in reached : ChildrenOf(r) \subseteq reached
  BY <1>1, ReachableIs
<1>3. /\ s.seen \subseteq reached /\ s.queue \subseteq reached
      /\ direct \subseteq s.seen \cup s.queue
      /\ \A r \in s.seen : composite[r] => ChildrenOf(r) \subseteq s.seen \cup s.queue
  BY <1>1 DEF Walking
<1>4. PICK new, below : /\ new = s.queue \ s.seen
                        /\ below = UNION {ChildrenOf(r) : r \in {x \in new : composite[x]}}
  OBVIOUS
<1>5. PICK t : t = WalkLevel(s)
  OBVIOUS
<1>6. t.seen = s.seen \cup new /\ t.queue = below
  BY <1>4, <1>5 DEF WalkLevel
<1>7. \A r \in new : composite[r] => ChildrenOf(r) \subseteq below
  BY <1>4
<1>8. below \subseteq reached
  BY <1>2, <1>3, <1>4
<1>9. Walking(t, direct)
  <2>1. t.seen \subseteq reached /\ t.queue \subseteq reached /\ direct \subseteq t.seen \cup t.queue
    BY <1>3, <1>4, <1>6, <1>8
  <2>2. \A r \in t.seen : composite[r] => ChildrenOf(r) \subseteq t.seen \cup t.queue
    BY <1>3, <1>4, <1>6, <1>7
  <2> QED
    BY <1>1, <2>1, <2>2 DEF Walking
<1>10. Progress(t, n + 1)
  <2>1. CASE new = {}
    BY <1>4, <1>6, <2>1 DEF Progress
  <2>2. CASE new # {}
    <3>1. n <= Cardinality(s.seen)
      BY <1>4, <2>2 DEF Progress
    <3>2. s.seen \in SUBSET t.seen /\ t.seen \in SUBSET Roles /\ s.seen # t.seen
      BY <1>2, <1>3, <1>4, <1>6, <2>2
    <3>3. IsFiniteSet(t.seen)
      BY <3>2, CompositeRolesAssumption, FS_Subset
    <3>4. IsFiniteSet(s.seen) /\ Cardinality(s.seen) <= Cardinality(t.seen) /\ Cardinality(s.seen) # Cardinality(t.seen)
      BY <3>2, <3>3, FS_Subset
    <3>5. Cardinality(s.seen) \in Nat /\ Cardinality(t.seen) \in Nat
      BY <3>3, <3>4, FS_CardinalityType
    <3> QED
      BY <3>1, <3>4, <3>5 DEF Progress
  <2> QED
    BY <2>1, <2>2
<1> QED
  BY <1>5, <1>9, <1>10

\* The walk finds what is reachable, when the flags on its way are right.
LEMMA ExpandReaches ==
  ASSUME RolesTypeOK, NEW direct \in SUBSET Roles,
         \A r \in Reachable(Closed, direct) : composite[r] = (ChildrenOf(r) # {})
  PROVE  ExpandFrom(direct) = Reachable(Closed, direct)
<1>1. PICK N \in Nat : N = Cardinality(Roles)
  BY CompositeRolesAssumption, FS_CardinalityType
<1>2. PICK w : /\ w = [n \in 0..N |-> IF n = 0 THEN WalkStart(direct) ELSE WalkLevel(w[n - 1])]
               /\ ExpandFrom(direct) = w[N].seen
  BY <1>1, WalkIs
<1>3. PICK reached : reached = Reachable(Closed, direct)
  OBVIOUS
<1>4. /\ direct \subseteq reached /\ reached \subseteq Roles
      /\ \A t \in SUBSET Roles : direct \subseteq t /\ (\A r \in t : ChildrenOf(r) \subseteq t) => reached \subseteq t
  BY <1>3, ReachableIs
<1>5. PICK S : S = {n \in 0..N : Walking(w[n], direct) /\ Progress(w[n], n)}
  OBVIOUS
<1>6. 0 \in S
  <2>1. w[0] = WalkStart(direct) /\ w[0].seen = {} /\ w[0].queue = direct
    BY <1>2 DEF WalkStart
  <2>2. Walking(w[0], direct)
    BY <1>3, <1>4, <2>1 DEF Walking
  <2>3. Progress(w[0], 0)
    BY <2>1, FS_EmptySet DEF Progress
  <2> QED
    BY <1>5, <2>2, <2>3
<1>7. ASSUME NEW n \in 0..N, n \in S, n < N PROVE n + 1 \in S
  <2>1. n + 1 \in 0..N /\ n + 1 # 0 /\ (n + 1) - 1 = n /\ n \in Nat
    BY <1>7
  <2>2. w[n + 1] = WalkLevel(w[n])
    BY <1>2, <2>1
  <2>3. Walking(w[n], direct) /\ Progress(w[n], n)
    BY <1>5, <1>7
  <2> QED
    BY <1>5, <2>1, <2>2, <2>3, LevelStep
<1>8. N \in S
  BY <1>6, <1>7, LevelInduction
<1>9. PICK s : s = w[N]
  OBVIOUS
<1>10. /\ s.seen \subseteq reached /\ s.queue \subseteq reached /\ direct \subseteq s.seen \cup s.queue
       /\ \A r \in s.seen : composite[r] => ChildrenOf(r) \subseteq s.seen \cup s.queue
       /\ s.queue \subseteq s.seen \/ N <= Cardinality(s.seen)
  BY <1>3, <1>5, <1>8, <1>9 DEF Walking, Progress
<1>11. reached \subseteq s.seen
  <2>1. CASE s.queue \subseteq s.seen
    <3>1. \A r \in s.seen : ChildrenOf(r) \subseteq s.seen
      BY <1>3, <1>10, <2>1
    <3> QED
      BY <1>4, <1>10, <2>1, <3>1
  <2>2. CASE N <= Cardinality(s.seen)
    <3>1. s.seen \in SUBSET Roles
      BY <1>4, <1>10
    <3>2. IsFiniteSet(s.seen) /\ Cardinality(s.seen) <= N /\ (N = Cardinality(s.seen) => Roles = s.seen)
      BY <1>1, <3>1, CompositeRolesAssumption, FS_Subset
    <3>3. Cardinality(s.seen) = N
      BY <2>2, <3>2, FS_CardinalityType
    <3> QED
      BY <1>4, <3>2, <3>3
  <2> QED
    BY <1>10, <2>1, <2>2
<1> QED
  BY <1>2, <1>3, <1>9, <1>10, <1>11

LEMMA TokensFollow ==
  ASSUME RolesTypeOK
  PROVE  TokenHoldsReachable
<1>1. PICK walks : walks = {[found |-> ExpandFrom(d), reached |-> Reachable(Closed, d)] : d \in SUBSET roleRows}
  OBVIOUS
<1>2. ASSUME NEW user \in walks, \A r \in user.reached : composite[r] = (ChildrenOf(r) # {})
      PROVE  user.found = user.reached
  <2>1. PICK d \in SUBSET roleRows : user = [found |-> ExpandFrom(d), reached |-> Reachable(Closed, d)]
    BY <1>1, <1>2
  <2>2. user.found = ExpandFrom(d) /\ user.reached = Reachable(Closed, d)
    BY <2>1
  <2>3. d \in SUBSET Roles
    BY DEF RolesTypeOK
  <2> QED
    BY <1>2, <2>2, <2>3, ExpandReaches
<1>3. ASSUME NEW user \in walks, NEW scope \in walks,
             \A r \in user.reached \cup scope.reached : composite[r] = (ChildrenOf(r) # {})
      PROVE  TokenRoles(user.found, scope.found) = user.reached \cap scope.reached
  BY <1>2, <1>3 DEF TokenRoles
<1> QED
  BY <1>1, <1>3 DEF TokenHoldsReachable

\* ExpandFrom and InScope (roles.go): over any finite set of roles, with cycles or
\* without, a token carries exactly the roles that the user and the client's scope
\* both reach, while the composite flags on the way agree with the children.
THEOREM TokensHoldReachable == RolesSpec => []TokenHoldsReachable
BY RolesTypeCorrect, TokensFollow, PTL
-----------------------------------------------------------------------------
(* Groups *)

\* What a deletion has looked into has no child it has not found, but late ones.
Walked(q) ==
  /\ \A g \in Groups : groupRow[g].parent \in groupReq[q].out \ groupReq[q].todo
                        => g \in groupReq[q].out \cup late
  /\ groupReq[q].step = "delete" => groupReq[q].todo = {}

GroupsInv ==
  /\ GroupsTypeOK
  /\ DeleteLeavesNoOrphans
  /\ \A q \in GroupRequests : Walked(q)

LEMMA GroupRequestTypes ==
  /\ IdleGroupRequest \in GroupRequest /\ OverGroupRequest \in GroupRequest
  /\ IdleGroupRequest.out = {} /\ OverGroupRequest.out = {}
  /\ OverGroupRequest.step = "over"
BY DEF IdleGroupRequest, OverGroupRequest, GroupRequest, GroupSteps

\* A step of q that writes no group.
LEMMA GroupsRest ==
  ASSUME GroupsInv, NEW q \in GroupRequests, NEW n \in GroupRequest, groupReq' = [groupReq EXCEPT ![q] = n],
         UNCHANGED <<groupRow, late>>, orgRows' \in SUBSET OrgIds,
         membership' \in SUBSET (Groups \X GroupUsers), defaults' \in SUBSET Groups,
         unused' \in SUBSET (GroupIds \cup OrgIds),
         \A g \in Groups : groupRow[g].parent \in n.out \ n.todo => g \in n.out \cup late,
         n.step = "delete" => n.todo = {}
  PROVE  GroupsInv'
<1>1. Groups' = Groups
  BY DEF Groups
<1>2. GroupsTypeOK'
  BY <1>1 DEF GroupsInv, GroupsTypeOK
<1>3. DeleteLeavesNoOrphans'
  BY <1>1 DEF GroupsInv, DeleteLeavesNoOrphans
<1>4. ASSUME NEW p \in GroupRequests PROVE Walked(p)'
  <2>1. groupReq'[p] = IF p = q THEN n ELSE groupReq[p]
    BY DEF GroupsInv, GroupsTypeOK
  <2> QED BY <1>1, <2>1 DEF GroupsInv, Walked
<1> QED BY <1>2, <1>3, <1>4 DEF GroupsInv

\* The same, of a request that walks nothing.
LEMMA GroupsRestIdle ==
  ASSUME GroupsInv, NEW q \in GroupRequests, NEW n \in GroupRequest, groupReq' = [groupReq EXCEPT ![q] = n],
         UNCHANGED <<groupRow, late>>, orgRows' \in SUBSET OrgIds,
         membership' \in SUBSET (Groups \X GroupUsers), defaults' \in SUBSET Groups,
         unused' \in SUBSET (GroupIds \cup OrgIds), n.out = {}, n.step # "delete"
  PROVE  GroupsInv'
BY GroupsRest

\* A group put below another, or at the top.
LEMMA PutBelowKeeps ==
  ASSUME GroupsInv, NEW g \in GroupIds, NEW p \in GroupIds \cup {NoGroup}, NEW o \in OrgIds \cup {NoGroup},
         groupRow' = [groupRow EXCEPT ![g] = [parent |-> p, org |-> o]],
         late \subseteq late', late' \subseteq GroupIds, LookedInto(p) => g \in late',
         NEW q \in GroupRequests, GroupRequestEnds(q),
         UNCHANGED <<orgRows, membership, defaults>>, unused' \subseteq unused
  PROVE  GroupsInv'
<1> DEFINE row == [parent |-> p, org |-> o]
<1>1. row \in GroupRow /\ row # NoGroup /\ row.parent = p
  BY GroupTreeAssumption DEF GroupRow
<1> HIDE DEF row
<1>2. groupRow' = [groupRow EXCEPT ![g] = row] /\ groupReq' = [groupReq EXCEPT ![q] = OverGroupRequest]
  BY DEF row, GroupRequestEnds
<1>3. groupRow \in [GroupIds -> GroupRow \cup {NoGroup}] /\ groupReq \in [GroupRequests -> GroupRequest]
  BY DEF GroupsInv, GroupsTypeOK
<1>4. \A x \in GroupIds : groupRow'[x] = IF x = g THEN row ELSE groupRow[x]
  BY <1>2, <1>3
<1>5. Groups' = Groups \cup {g}
  BY <1>1, <1>4 DEF Groups
<1>6. GroupsTypeOK'
  <2>1. groupRow' \in [GroupIds -> GroupRow \cup {NoGroup}]
    BY <1>1, <1>2, <1>3
  <2>2. groupReq' \in [GroupRequests -> GroupRequest]
    BY <1>2, <1>3, GroupRequestTypes
  <2> QED BY <1>5, <2>1, <2>2 DEF GroupsInv, GroupsTypeOK
<1>7. p \in Groups \cup {NoGroup} \/ g \in late'
  BY DEF LookedInto
<1>8. DeleteLeavesNoOrphans'
  <2>1. ASSUME NEW x \in Groups' PROVE groupRow'[x].parent \in Groups' \cup {NoGroup} \/ x \in late'
    <3>1. CASE x = g
      BY <1>1, <1>4, <1>5, <1>7, <3>1
    <3>2. CASE x # g
      <4>1. x \in Groups /\ groupRow'[x] = groupRow[x]
        BY <1>4, <1>5, <2>1, <3>2 DEF Groups
      <4> QED BY <1>5, <4>1 DEF GroupsInv, DeleteLeavesNoOrphans
    <3> QED BY <3>1, <3>2
  <2> QED BY <2>1 DEF DeleteLeavesNoOrphans
<1>9. ASSUME NEW d \in GroupRequests PROVE Walked(d)'
  <2>1. groupReq'[d] = IF d = q THEN OverGroupRequest ELSE groupReq[d]
    BY <1>2, <1>3
  <2>2. CASE d = q
    BY <2>1, <2>2, GroupRequestTypes DEF Walked
  <2>3. CASE d # q
    <3>1. ASSUME NEW x \in Groups', groupRow'[x].parent \in groupReq[d].out \ groupReq[d].todo
          PROVE  x \in groupReq[d].out \cup late'
      <4>0. groupReq[d].out \subseteq GroupIds
        BY <1>3 DEF GroupRequest
      <4>1. CASE x = g
        <5>1. p \in groupReq[d].out \ groupReq[d].todo
          BY <1>1, <1>4, <3>1, <4>1
        <5>2. LookedInto(p)
          BY <4>0, <5>1, GroupTreeAssumption DEF LookedInto
        <5> QED BY <4>1, <5>2
      <4>2. CASE x # g
        <5>1. x \in Groups /\ groupRow'[x] = groupRow[x]
          BY <1>4, <1>5, <3>1, <4>2 DEF Groups
        <5> QED BY <3>1, <5>1 DEF GroupsInv, Walked
      <4> QED BY <4>1, <4>2
    <3> QED BY <2>1, <2>3, <3>1 DEF GroupsInv, Walked
  <2> QED BY <2>2, <2>3
<1> QED BY <1>6, <1>8, <1>9 DEF GroupsInv

LEMMA PutStepsKeep ==
  ASSUME GroupsInv, NEW q \in GroupRequests, InsertGroup(q) \/ MoveGroup(q) \/ CreateOrganizationRoot(q)
  PROVE  GroupsInv'
<1>0. /\ groupReq[q].parent \in GroupIds \cup {NoGroup} /\ groupReq[q].org \in OrgIds \cup {NoGroup}
      /\ late \subseteq GroupIds /\ groupReq[q].group \in GroupIds \cup {NoGroup}
  BY DEF GroupsInv, GroupsTypeOK, GroupRequest
<1>1. CASE InsertGroup(q)
  <2>1. PICK g \in GroupIds \cap unused :
          PutBelow(g, groupReq[q].parent, groupReq[q].org) /\ unused' = unused \ {g}
    BY <1>1 DEF InsertGroup
  <2>2. GroupRequestEnds(q) /\ UNCHANGED <<orgRows, membership, defaults>>
    BY <1>1 DEF InsertGroup
  <2>3. /\ groupRow' = [groupRow EXCEPT ![g] = [parent |-> groupReq[q].parent, org |-> groupReq[q].org]]
        /\ late \subseteq late' /\ late' \subseteq GroupIds /\ (LookedInto(groupReq[q].parent) => g \in late')
    BY <1>0, <2>1 DEF PutBelow
  <2>4. unused' \subseteq unused
    BY <2>1
  <2> QED BY <1>0, <2>2, <2>3, <2>4, PutBelowKeeps
<1>2. CASE MoveGroup(q)
  <2>1. PICK g : g = groupReq[q].group
    OBVIOUS
  <2>2. GroupRequestEnds(q) /\ UNCHANGED <<orgRows, membership, defaults, unused>>
    BY <1>2 DEF MoveGroup
  <2>3. CASE g \in Groups
    <3>1. g \in GroupIds /\ groupRow[g] \in GroupRow
      BY <2>3 DEF Groups, GroupsInv, GroupsTypeOK
    <3>2. PutBelow(g, groupReq[q].parent, groupRow[g].org) /\ groupRow[g].org \in OrgIds \cup {NoGroup}
      BY <1>2, <2>1, <2>3, <3>1 DEF MoveGroup, GroupRow
    <3>3. /\ groupRow' = [groupRow EXCEPT ![g] = [parent |-> groupReq[q].parent, org |-> groupRow[g].org]]
          /\ late \subseteq late' /\ late' \subseteq GroupIds /\ (LookedInto(groupReq[q].parent) => g \in late')
      BY <1>0, <3>1, <3>2 DEF PutBelow
    <3> QED BY <1>0, <2>2, <3>1, <3>2, <3>3, PutBelowKeeps
  <2>4. CASE g \notin Groups
    BY <1>2, <2>1, <2>2, <2>4, GroupsRestIdle, GroupRequestTypes
       DEF MoveGroup, GroupRequestEnds, GroupsInv, GroupsTypeOK
  <2> QED BY <2>3, <2>4
<1>3. CASE CreateOrganizationRoot(q)
  <2>1. PICK g \in GroupIds \cap unused :
          /\ groupRow' = [groupRow EXCEPT ![g] = [parent |-> NoGroup, org |-> groupReq[q].org]]
          /\ late' = (IF groupReq[q].org \in orgRows /\ ~BeingDeleted(groupReq[q].org)
                      THEN late ELSE late \cup {g})
          /\ unused' = unused \ {g}
    BY <1>3 DEF CreateOrganizationRoot
  <2>2. GroupRequestEnds(q) /\ UNCHANGED <<orgRows, membership, defaults>>
    BY <1>3 DEF CreateOrganizationRoot
  <2>3. ~LookedInto(NoGroup) /\ late \subseteq late' /\ late' \subseteq GroupIds /\ unused' \subseteq unused
    BY <1>0, <2>1 DEF LookedInto
  <2> QED BY <1>0, <2>1, <2>2, <2>3, PutBelowKeeps
<1> QED BY <1>1, <1>2, <1>3

LEMMA WalkKeeps ==
  ASSUME GroupsInv, NEW q \in GroupRequests, FindForDelete(q) \/ WalkSubtree(q)
  PROVE  GroupsInv'
<1>0. /\ groupReq[q] \in GroupRequest /\ UNCHANGED <<groupRow, orgRows, membership, defaults, unused, late>>
      /\ orgRows' \in SUBSET OrgIds /\ membership' \in SUBSET (Groups \X GroupUsers)
      /\ defaults' \in SUBSET Groups /\ unused' \in SUBSET (GroupIds \cup OrgIds)
  BY DEF FindForDelete, WalkSubtree, GroupsInv, GroupsTypeOK
<1>1. CASE FindForDelete(q)
  <2>1. PICK g : g = groupReq[q].group
    OBVIOUS
  <2>2. CASE g \in Groups
    <3> DEFINE n == [groupReq[q] EXCEPT !.step = "walk", !.out = {g}, !.todo = {g}]
    <3>1. n \in GroupRequest /\ n.step = "walk" /\ n.out = {g} /\ n.todo = {g}
      BY <1>0, <2>2 DEF GroupRequest, GroupSteps, Groups
    <3>2. groupReq' = [groupReq EXCEPT ![q] = n]
      BY <1>1, <2>1, <2>2 DEF FindForDelete
    <3> HIDE DEF n
    <3> QED BY <1>0, <3>1, <3>2, GroupsRest
  <2>3. CASE g \notin Groups
    BY <1>0, <1>1, <2>1, <2>3, GroupsRestIdle, GroupRequestTypes DEF FindForDelete, GroupRequestEnds
  <2> QED BY <2>2, <2>3
<1>2. CASE WalkSubtree(q)
  <2>1. ASSUME NEW g \in groupReq[q].todo,
               groupReq' = [groupReq EXCEPT ![q].out = @ \cup SubGroups(g),
                                            ![q].todo = (@ \ {g}) \cup SubGroups(g)]
        PROVE  GroupsInv'
    <3> DEFINE out == groupReq[q].out \cup SubGroups(g)
               todo == (groupReq[q].todo \ {g}) \cup SubGroups(g)
               n == [groupReq[q] EXCEPT !.out = out, !.todo = todo]
    <3>0. out \subseteq GroupIds /\ todo \subseteq GroupIds
      BY <1>0 DEF GroupRequest, SubGroups, Groups
    <3>1. groupReq' = [groupReq EXCEPT ![q] = n]
      BY <2>1
    <3>2. \A x \in Groups : groupRow[x].parent \in out \ todo => x \in out \cup late
      <4>1. SUFFICES ASSUME NEW x \in Groups, groupRow[x].parent \in out \ todo PROVE x \in out \cup late
        OBVIOUS
      <4>2. CASE groupRow[x].parent = g
        BY <4>2 DEF SubGroups
      <4>3. CASE groupRow[x].parent # g
        <5>1. groupRow[x].parent \in groupReq[q].out \ groupReq[q].todo
          BY <4>1, <4>3
        <5> QED BY <5>1 DEF GroupsInv, Walked
      <4> QED BY <4>2, <4>3
    <3> HIDE DEF out, todo
    <3>3. n \in GroupRequest /\ n.out = out /\ n.todo = todo /\ n.step = groupReq[q].step
      BY <1>0, <3>0 DEF GroupRequest
    <3>4. n.step # "delete"
      BY <1>2, <3>3 DEF WalkSubtree
    <3> HIDE DEF n
    <3> QED BY <1>0, <3>1, <3>2, <3>3, <3>4, GroupsRest
  <2>2. CASE groupReq[q].todo = {} /\ groupReq' = [groupReq EXCEPT ![q].step = "delete"]
    <3> DEFINE n == [groupReq[q] EXCEPT !.step = "delete"]
    <3>1. n \in GroupRequest /\ n.out = groupReq[q].out /\ n.todo = groupReq[q].todo
      BY <1>0 DEF GroupRequest, GroupSteps
    <3>2. groupReq' = [groupReq EXCEPT ![q] = n]
      BY <2>2
    <3> HIDE DEF n
    <3>3. \A x \in Groups : groupRow[x].parent \in n.out \ n.todo => x \in n.out \cup late
      BY <3>1 DEF GroupsInv, Walked
    <3> QED BY <1>0, <2>2, <3>1, <3>2, <3>3, GroupsRest
  <2> QED BY <1>2, <2>1, <2>2 DEF WalkSubtree
<1> QED BY <1>1, <1>2

LEMMA DeleteSubtreeKeeps ==
  ASSUME GroupsInv, NEW q \in GroupRequests, DeleteSubtree(q)
  PROVE  GroupsInv'
<1>1. PICK gone : gone = groupReq[q].out
  OBVIOUS
<1>2. /\ groupRow' = [g \in GroupIds |-> IF g \in gone THEN NoGroup ELSE groupRow[g]]
      /\ membership' = {m \in membership : m[1] \notin gone} /\ defaults' = defaults \ gone
      /\ UNCHANGED <<orgRows, unused, late>> /\ groupReq[q].todo = {}
  BY <1>1 DEF DeleteSubtree, GroupsInv, Walked
<1>3. PICK n \in GroupRequest : groupReq' = [groupReq EXCEPT ![q] = n] /\ n.out = {} /\ n.step # "delete"
  <2> DEFINE m == [groupReq[q] EXCEPT !.step = "deleteOrg", !.out = {}]
  <2>1. m \in GroupRequest /\ m.out = {} /\ m.step = "deleteOrg"
    BY DEF GroupsInv, GroupsTypeOK, GroupRequest, GroupSteps
  <2> HIDE DEF m
  <2>2. groupReq' = [groupReq EXCEPT ![q] = IF groupReq[q].ends THEN m ELSE OverGroupRequest]
    BY DEF DeleteSubtree, m
  <2> QED BY <2>1, <2>2, GroupRequestTypes
<1>4. Groups' = Groups \ gone /\ \A g \in Groups' : groupRow'[g] = groupRow[g]
  BY <1>2 DEF Groups
<1>5. GroupsTypeOK'
  BY <1>2, <1>3, <1>4 DEF GroupsInv, GroupsTypeOK
<1>6. DeleteLeavesNoOrphans'
  <2>1. ASSUME NEW g \in Groups' PROVE groupRow'[g].parent \in Groups' \cup {NoGroup} \/ g \in late'
    <3>1. g \in Groups /\ g \notin gone /\ groupRow'[g] = groupRow[g]
      BY <1>4, <2>1
    <3>2. groupRow[g].parent \in gone => g \in late
      BY <1>1, <1>2, <3>1 DEF GroupsInv, Walked
    <3> QED BY <1>2, <1>4, <3>1, <3>2 DEF GroupsInv, DeleteLeavesNoOrphans
  <2> QED BY <2>1 DEF DeleteLeavesNoOrphans
<1>7. ASSUME NEW d \in GroupRequests PROVE Walked(d)'
  <2>1. groupReq'[d] = IF d = q THEN n ELSE groupReq[d]
    BY <1>3 DEF GroupsInv, GroupsTypeOK
  <2> QED BY <1>2, <1>3, <1>4, <2>1 DEF GroupsInv, Walked
<1> QED BY <1>5, <1>6, <1>7 DEF GroupsInv

LEMMA GroupArrivalsKeep ==
  ASSUME GroupsInv, NEW q \in GroupRequests,
         \/ PostGroup(q) \/ PostMove(q) \/ CreateOrganization(q) \/ StartDelete(q) \/ StartDeleteOrganization(q)
  PROVE  GroupsInv'
<1>0. /\ UNCHANGED <<groupRow, membership, defaults, late>> /\ membership' \in SUBSET (Groups \X GroupUsers)
      /\ defaults' \in SUBSET Groups
  BY DEF PostGroup, PostMove, CreateOrganization, StartDelete, StartDeleteOrganization, GroupsInv, GroupsTypeOK
<1>1. orgRows' \in SUBSET OrgIds /\ unused' \in SUBSET (GroupIds \cup OrgIds)
  BY DEF PostGroup, PostMove, CreateOrganization, StartDelete, StartDeleteOrganization, GroupsInv, GroupsTypeOK
<1>2. ASSUME NEW n \in GroupRequest, GroupRequestArrives(q, n), n.out = {}, n.step # "delete"
      PROVE  GroupsInv'
  BY <1>0, <1>1, <1>2, GroupsRestIdle DEF GroupRequestArrives
<1>4. Groups \subseteq GroupIds /\ \A g \in Groups : groupRow[g].org \in OrgIds \cup {NoGroup}
  BY DEF Groups, GroupsInv, GroupsTypeOK, GroupRow
<1>6. CASE PostGroup(q)
  <2> DEFINE top == [IdleGroupRequest EXCEPT !.step = "insert"]
             below(p, o) == [IdleGroupRequest EXCEPT !.step = "insert", !.parent = p, !.org = o]
  <2>1. CASE GroupRequestArrives(q, top)
    <3>1. top \in GroupRequest /\ top.out = {} /\ top.step # "delete"
      BY DEF IdleGroupRequest, GroupRequest, GroupSteps
    <3> QED BY <1>2, <2>1, <3>1
  <2>2. ASSUME NEW p \in Groups, NEW o \in {NoGroup} \cup ({groupRow[p].org} \cap orgRows),
               GroupRequestArrives(q, below(p, o))
        PROVE  GroupsInv'
    <3>1. p \in GroupIds /\ o \in OrgIds \cup {NoGroup}
      BY <1>4
    <3>2. below(p, o) \in GroupRequest /\ below(p, o).out = {} /\ below(p, o).step # "delete"
      BY <3>1 DEF IdleGroupRequest, GroupRequest, GroupSteps
    <3> QED BY <1>2, <2>2, <3>2
  <2> HIDE DEF top, below
  <2> QED BY <1>6, <2>1, <2>2 DEF PostGroup, top, below
<1>7. CASE PostMove(q)
  <2> DEFINE request(g, p) == [IdleGroupRequest EXCEPT !.step = "move", !.group = g, !.parent = p]
  <2>1. PICK g \in Groups, p \in Groups : GroupRequestArrives(q, request(g, p))
    BY <1>7 DEF PostMove
  <2>2. request(g, p) \in GroupRequest /\ request(g, p).out = {} /\ request(g, p).step # "delete"
    BY <1>4 DEF IdleGroupRequest, GroupRequest, GroupSteps
  <2> QED BY <1>2, <2>1, <2>2
<1>8. CASE CreateOrganization(q)
  <2> DEFINE request(o) == [IdleGroupRequest EXCEPT !.step = "root", !.org = o]
  <2>1. PICK o \in OrgIds : GroupRequestArrives(q, request(o))
    BY <1>8 DEF CreateOrganization
  <2>2. request(o) \in GroupRequest /\ request(o).out = {} /\ request(o).step # "delete"
    BY DEF IdleGroupRequest, GroupRequest, GroupSteps
  <2> QED BY <1>2, <2>1, <2>2
<1>9. CASE StartDelete(q)
  <2> DEFINE request(g) == [IdleGroupRequest EXCEPT !.step = "find", !.group = g]
  <2>1. PICK g \in Groups : GroupRequestArrives(q, request(g))
    BY <1>9 DEF StartDelete
  <2>2. request(g) \in GroupRequest /\ request(g).out = {} /\ request(g).step # "delete"
    BY <1>4 DEF IdleGroupRequest, GroupRequest, GroupSteps
  <2> QED BY <1>2, <2>1, <2>2
<1>10. CASE StartDeleteOrganization(q)
  <2> DEFINE request(o) == [IdleGroupRequest EXCEPT !.org = o, !.ends = TRUE]
             walk(o, g) == [request(o) EXCEPT !.step = "find", !.group = g]
             row(o) == [request(o) EXCEPT !.step = "deleteOrg"]
  <2>1. PICK o \in orgRows :
          \/ \E g \in OrganizationRoots(o) : GroupRequestArrives(q, walk(o, g))
          \/ GroupRequestArrives(q, row(o))
    BY <1>10 DEF StartDeleteOrganization
  <2>2. o \in OrgIds /\ OrganizationRoots(o) \subseteq GroupIds
    BY DEF GroupsInv, GroupsTypeOK, OrganizationRoots, SubGroups, Groups
  <2>3. row(o) \in GroupRequest /\ row(o).out = {} /\ row(o).step # "delete"
    BY <2>2 DEF IdleGroupRequest, GroupRequest, GroupSteps
  <2>4. ASSUME NEW g \in GroupIds
        PROVE  walk(o, g) \in GroupRequest /\ walk(o, g).out = {} /\ walk(o, g).step # "delete"
    BY <2>2 DEF IdleGroupRequest, GroupRequest, GroupSteps
  <2> HIDE DEF walk, row
  <2> QED BY <1>2, <2>1, <2>2, <2>3, <2>4
<1> QED BY <1>6, <1>7, <1>8, <1>9, <1>10

LEMMA GroupSingleStepsKeep ==
  ASSUME GroupsInv, NEW q \in GroupRequests,
         SetMembership(q) \/ SetDefaultGroup(q) \/ DeleteOrganizationRow(q) \/ CutGroupRequest(q)
  PROVE  GroupsInv'
<1>1. groupReq' = [groupReq EXCEPT ![q] = OverGroupRequest] /\ UNCHANGED <<groupRow, late, unused>>
  BY DEF SetMembership, SetDefaultGroup, DeleteOrganizationRow, CutGroupRequest, GroupRequestServed, GroupRequestEnds
<1>2. /\ orgRows' \in SUBSET OrgIds /\ defaults' \in SUBSET Groups /\ unused' \in SUBSET (GroupIds \cup OrgIds)
  BY <1>1 DEF SetMembership, SetDefaultGroup, DeleteOrganizationRow, CutGroupRequest, GroupsInv, GroupsTypeOK
<1>3. membership' \in SUBSET (Groups \X GroupUsers)
  BY DEF SetMembership, SetDefaultGroup, DeleteOrganizationRow, CutGroupRequest, GroupsInv, GroupsTypeOK
<1> QED BY <1>1, <1>2, <1>3, GroupsRestIdle, GroupRequestTypes

LEMMA GroupsStart == GroupsInit => GroupsInv
<1> SUFFICES ASSUME GroupsInit PROVE GroupsInv
  OBVIOUS
<1>1. GroupsTypeOK
  BY GroupTreeAssumption, GroupRequestTypes DEF GroupsInit, GroupsTypeOK
<1>2. DeleteLeavesNoOrphans
  BY GroupTreeAssumption DEF GroupsInit, DeleteLeavesNoOrphans, Groups
<1>3. \A q \in GroupRequests : Walked(q)
  BY GroupRequestTypes DEF GroupsInit, Walked, IdleGroupRequest
<1> QED BY <1>1, <1>2, <1>3 DEF GroupsInv

LEMMA GroupsStep == GroupsInv /\ [GroupsNext]_groupsVars => GroupsInv'
<1> SUFFICES ASSUME GroupsInv, [GroupsNext]_groupsVars PROVE GroupsInv'
  OBVIOUS
<1>1. CASE UNCHANGED groupsVars
  <2>1. UNCHANGED <<groupRow, orgRows, membership, defaults, unused, groupReq, late>>
    BY <1>1 DEF groupsVars
  <2> QED BY <2>1 DEF GroupsInv, GroupsTypeOK, DeleteLeavesNoOrphans, Walked, Groups
<1>2. CASE GroupsNext
  BY <1>2, PutStepsKeep, WalkKeeps, DeleteSubtreeKeeps, GroupArrivalsKeep, GroupSingleStepsKeep DEF GroupsNext
<1> QED BY <1>1, <1>2

\* Every variable of the group tables keeps its type; memberships and default groups
\* are those of groups that are there.
THEOREM GroupsTypeCorrect == GroupsSpec => []GroupsTypeOK
<1>1. GroupsInv => GroupsTypeOK
  BY DEF GroupsInv
<1> QED BY <1>1, GroupsStart, GroupsStep, PTL DEF GroupsSpec

\* groupRepo.Delete with its subtree: in a forest of any shape, with any number of
\* creations, moves and deletions at the same time, only a group that was put below a
\* group already looked into outlives its parent.
THEOREM NoOrphans == GroupsSpec => []DeleteLeavesNoOrphans
<1>1. GroupsInv => DeleteLeavesNoOrphans
  BY DEF GroupsInv
<1> QED BY <1>1, GroupsStart, GroupsStep, PTL DEF GroupsSpec
-----------------------------------------------------------------------------
(* Groups of organizations *)


\* No row has an id that is still to be drawn.
IdsDrawn ==
  /\ orgRows \cap unused = {}
  /\ \A g \in Groups : {g, groupRow[g].parent, groupRow[g].org} \cap unused = {}

\* A group of an organization lies below a group of the same organization.
OrgFollows ==
  \A g \in Groups \ late :
    groupRow[g].org # NoGroup /\ groupRow[g].parent \in Groups => groupRow[groupRow[g].parent].org = groupRow[g].org

OneRoot == \A o \in OrgIds : \A g, h \in OrganizationRoots(o) : g = h

\* The root of an organization that has gone came too late.
RootsGone == \A o \in OrgIds \ orgRows : OrganizationRoots(o) \subseteq late

\* What request r has read, or has done, and still holds.
Owned(r) ==
  /\ {r.group, r.parent, r.org} \cap unused = {}
  /\ r.step = "insert" /\ r.org # NoGroup =>
       r.parent # NoGroup /\ (r.parent \in Groups => groupRow[r.parent].org = r.org)
  /\ r.step = "move" =>
       /\ r.parent # NoGroup
       /\ r.group \in Groups /\ r.parent \in Groups => groupRow[r.parent].org = groupRow[r.group].org
  /\ r.step = "root" => r.org # NoGroup /\ \A g \in Groups : groupRow[g].org # r.org
  /\ r.step = "deleteOrg" => r.ends
  /\ r.step \in {"walk", "delete"} => r.group \in r.out
  /\ r.ends => /\ r.org # NoGroup /\ r.step \in {"find", "walk", "delete", "deleteOrg"}
               /\ OrganizationRoots(r.org) \subseteq late \cup (IF r.step = "deleteOrg" THEN {} ELSE {r.group})

RequestsOwned == \A q \in GroupRequests : \A r \in GroupRequest : r = groupReq[q] => Owned(r)

\* An organization whose root is still to come has no group coming either.
RootAlone ==
  \A p, q \in GroupRequests :
    p # q /\ groupReq[p].step = "root" /\ groupReq[q].step \in {"root", "insert"} => groupReq[p].org # groupReq[q].org

OrgInv == GroupsInv /\ IdsDrawn /\ OrgFollows /\ OneRoot /\ RootsGone /\ RequestsOwned /\ RootAlone

LEMMA RowTypes ==
  ASSUME GroupsTypeOK, NEW g \in Groups
  PROVE  /\ g \in GroupIds /\ groupRow[g].parent \in GroupIds \cup {NoGroup}
         /\ groupRow[g].org \in OrgIds \cup {NoGroup}
BY DEF GroupsTypeOK, Groups, GroupRow

LEMMA RootsAre ==
  \A o : OrganizationRoots(o) = {g \in Groups : groupRow[g].parent = NoGroup /\ groupRow[g].org = o}
BY DEF OrganizationRoots, SubGroups

\* A step that draws ids, never gives one back, and leaves every row its organization.
OrgsStay ==
  /\ unused' \subseteq unused /\ late \subseteq late'
  /\ \A g \in Groups' : IF g \in Groups THEN groupRow'[g].org = groupRow[g].org ELSE g \in unused

LEMMA OwnedStays ==
  ASSUME NEW r \in GroupRequest, Owned(r), OrgsStay,
         r.step = "root" => \A g \in Groups' \ Groups : groupRow'[g].org # r.org,
         r.ends => OrganizationRoots(r.org)' \subseteq OrganizationRoots(r.org) \cup late'
  PROVE  Owned(r)'
<1>1. {r.group, r.parent, r.org} \cap unused' = {}
  BY DEF Owned, OrgsStay
<1>2. /\ r.parent \in Groups' => r.parent \in Groups /\ groupRow'[r.parent].org = groupRow[r.parent].org
      /\ r.group \in Groups' => r.group \in Groups /\ groupRow'[r.group].org = groupRow[r.group].org
  BY DEF Owned, OrgsStay
<1>3. r.step = "insert" /\ r.org # NoGroup =>
        r.parent # NoGroup /\ (r.parent \in Groups' => groupRow'[r.parent].org = r.org)
  BY <1>2 DEF Owned
<1>4. r.step = "move" =>
        /\ r.parent # NoGroup
        /\ r.group \in Groups' /\ r.parent \in Groups' => groupRow'[r.parent].org = groupRow'[r.group].org
  BY <1>2 DEF Owned
<1>5. r.step = "root" => r.org # NoGroup /\ \A g \in Groups' : groupRow'[g].org # r.org
  BY DEF Owned, OrgsStay
<1>6. r.ends => OrganizationRoots(r.org)' \subseteq late' \cup (IF r.step = "deleteOrg" THEN {} ELSE {r.group})
  BY DEF Owned, OrgsStay
<1> QED
  BY <1>1, <1>3, <1>4, <1>5, <1>6 DEF Owned

LEMMA OverOwned ==
  /\ OverGroupRequest \in GroupRequest /\ OverGroupRequest.step = "over"
  /\ GroupsTypeOK => Owned(OverGroupRequest) /\ Owned(IdleGroupRequest)
<1>1. OverGroupRequest \in GroupRequest /\ OverGroupRequest.step = "over"
  BY GroupRequestTypes
<1>2. GroupsTypeOK => NoGroup \notin unused
  BY GroupTreeAssumption DEF GroupsTypeOK
<1>3. /\ OverGroupRequest.group = NoGroup /\ OverGroupRequest.parent = NoGroup /\ OverGroupRequest.org = NoGroup
      /\ OverGroupRequest.ends = FALSE
      /\ IdleGroupRequest.group = NoGroup /\ IdleGroupRequest.parent = NoGroup /\ IdleGroupRequest.org = NoGroup
      /\ IdleGroupRequest.ends = FALSE /\ IdleGroupRequest.step = "idle"
  BY DEF OverGroupRequest, IdleGroupRequest
<1> QED
  BY <1>1, <1>2, <1>3 DEF Owned

\* Request q becomes n; the others stay what they are.
LEMMA RequestsStay ==
  ASSUME OrgInv, NEW q \in GroupRequests, NEW n \in GroupRequest, groupReq' = [groupReq EXCEPT ![q] = n], OrgsStay,
         \A p \in GroupRequests \ {q} :
           /\ groupReq[p].step = "root" => \A g \in Groups' \ Groups : groupRow'[g].org # groupReq[p].org
           /\ groupReq[p].ends => \A o \in OrgIds :
                o = groupReq[p].org => OrganizationRoots(o)' \subseteq OrganizationRoots(o) \cup late',
         Owned(n)'
  PROVE  RequestsOwned'
<1> SUFFICES ASSUME NEW p \in GroupRequests, NEW r \in GroupRequest, r = groupReq'[p] PROVE Owned(r)'
  BY DEF RequestsOwned
<1>1. groupReq'[p] = IF p = q THEN n ELSE groupReq[p]
  BY DEF OrgInv, GroupsInv, GroupsTypeOK
<1>2. CASE p = q
  BY <1>1, <1>2
<1>3. CASE p # q
  <2>1. r = groupReq[p] /\ Owned(r)
    BY <1>1, <1>3 DEF OrgInv, RequestsOwned
  <2>2. r.ends => r.org \in OrgIds
    BY <2>1 DEF Owned, GroupRequest
  <2>3. r.step = "root" => \A g \in Groups' \ Groups : groupRow'[g].org # r.org
    BY <1>3, <2>1
  <2>4. r.ends => OrganizationRoots(r.org)' \subseteq OrganizationRoots(r.org) \cup late'
    BY <1>3, <2>1, <2>2
  <2> QED
    BY <2>1, <2>3, <2>4, OwnedStays
<1> QED
  BY <1>2, <1>3

LEMMA RootAloneStays ==
  ASSUME OrgInv, NEW q \in GroupRequests, NEW n \in GroupRequest, groupReq' = [groupReq EXCEPT ![q] = n],
         n.step \in {"root", "insert"} =>
           \A p \in GroupRequests \ {q} :
             \/ groupReq[p].step \notin {"root", "insert"}
             \/ n.step = "insert" /\ groupReq[p].step = "insert"
             \/ groupReq[p].org # n.org
  PROVE  RootAlone'
<1>1. \A p \in GroupRequests : groupReq'[p] = IF p = q THEN n ELSE groupReq[p]
  BY DEF OrgInv, GroupsInv, GroupsTypeOK
<1> QED
  BY <1>1 DEF OrgInv, RootAlone

\* A step of q that writes no group and no organization.
LEMMA OrgRests ==
  ASSUME OrgInv, GroupsInv', NEW q \in GroupRequests, NEW n \in GroupRequest,
         groupReq' = [groupReq EXCEPT ![q] = n],
         UNCHANGED <<groupRow, orgRows, unused, late>>, Owned(n), n.step # "root",
         n.step = "insert" => n.org = NoGroup \/ \E g \in Groups : groupRow[g].org = n.org
  PROVE  OrgInv'
<1>1. Groups' = Groups /\ \A o : OrganizationRoots(o)' = OrganizationRoots(o)
  BY DEF Groups, OrganizationRoots, SubGroups
<1>2. IdsDrawn' /\ OrgFollows' /\ OneRoot' /\ RootsGone'
  BY <1>1 DEF OrgInv, IdsDrawn, OrgFollows, OneRoot, RootsGone
<1>3. Owned(n)'
  BY <1>1 DEF Owned
<1>4. RequestsOwned'
  <2>1. OrgsStay
    BY <1>1 DEF OrgsStay
  <2> QED
    BY <1>1, <1>3, <2>1, RequestsStay
<1>5. RootAlone'
  <2>1. ASSUME NEW p \in GroupRequests, groupReq[p].step = "root", n.step = "insert"
        PROVE  groupReq[p].org # n.org
    <3>1. PICK r \in GroupRequest : r = groupReq[p]
      BY DEF OrgInv, GroupsInv, GroupsTypeOK
    <3>2. Owned(r)
      BY <3>1 DEF OrgInv, RequestsOwned
    <3> QED
      BY <2>1, <3>1, <3>2 DEF Owned
  <2> QED
    BY <2>1, RootAloneStays
<1> QED
  BY <1>2, <1>4, <1>5 DEF OrgInv

LEMMA EndingsOwn ==
  ASSUME OrgInv, GroupsInv', NEW q \in GroupRequests, GroupRequestEnds(q),
         UNCHANGED <<groupRow, orgRows, unused, late>>
  PROVE  OrgInv'
BY OverOwned, OrgRests DEF GroupRequestEnds, OrgInv, GroupsInv

LEMMA PostGroupOwns ==
  ASSUME OrgInv, GroupsInv', NEW q \in GroupRequests, PostGroup(q)
  PROVE  OrgInv'
<1>1. UNCHANGED <<groupRow, orgRows, unused, late>>
  BY DEF PostGroup
<1>2. NoGroup \notin unused
  BY GroupTreeAssumption DEF OrgInv, GroupsInv, GroupsTypeOK
<1>3. ASSUME NEW n \in GroupRequest, groupReq' = [groupReq EXCEPT ![q] = n],
             n.step = "insert", n.group = NoGroup, n.ends = FALSE,
             \/ n.org = NoGroup /\ n.parent \in Groups \cup {NoGroup}
             \/ n.parent \in Groups /\ n.org = groupRow[n.parent].org
      PROVE  OrgInv'
  <2>1. \A g \in Groups : g # NoGroup /\ g \notin unused /\ groupRow[g].org \notin unused
    BY GroupTreeAssumption DEF OrgInv, IdsDrawn, Groups
  <2>2. {n.group, n.parent, n.org} \cap unused = {}
    BY <1>2, <1>3, <2>1
  <2>3. Owned(n)
    BY <1>3, <2>1, <2>2 DEF Owned
  <2>4. n.org = NoGroup \/ \E g \in Groups : groupRow[g].org = n.org
    BY <1>3
  <2> QED
    BY <1>1, <1>3, <2>3, <2>4, OrgRests
<1>4. CASE GroupRequestArrives(q, [IdleGroupRequest EXCEPT !.step = "insert"])
  <2>1. PICK n : n = [IdleGroupRequest EXCEPT !.step = "insert"]
    OBVIOUS
  <2>2. /\ n.step = "insert" /\ n.parent = NoGroup /\ n.org = NoGroup /\ n.group = NoGroup /\ n.ends = FALSE
        /\ n \in GroupRequest
    BY <2>1 DEF IdleGroupRequest, GroupRequest, GroupSteps
  <2> QED
    BY <1>3, <1>4, <2>1, <2>2 DEF GroupRequestArrives
<1>5. ASSUME NEW p \in Groups, NEW o \in {NoGroup} \cup ({groupRow[p].org} \cap orgRows),
             GroupRequestArrives(q, [IdleGroupRequest EXCEPT !.step = "insert", !.parent = p, !.org = o])
      PROVE  OrgInv'
  <2>1. PICK n : n = [IdleGroupRequest EXCEPT !.step = "insert", !.parent = p, !.org = o]
    OBVIOUS
  <2>2. o \in OrgIds \cup {NoGroup} /\ p \in GroupIds
    BY DEF OrgInv, GroupsInv, GroupsTypeOK, Groups
  <2>3. /\ n.step = "insert" /\ n.parent = p /\ n.org = o /\ n.group = NoGroup /\ n.ends = FALSE
        /\ n \in GroupRequest
    BY <2>1, <2>2 DEF IdleGroupRequest, GroupRequest, GroupSteps
  <2> QED
    BY <1>3, <1>5, <2>1, <2>3 DEF GroupRequestArrives
<1> QED
  BY <1>4, <1>5 DEF PostGroup

LEMMA PostMoveOwns ==
  ASSUME OrgInv, GroupsInv', NEW q \in GroupRequests, PostMove(q)
  PROVE  OrgInv'
<1>1. PICK g, p \in Groups :
        /\ groupRow[p].org = groupRow[g].org
        /\ groupReq' = [groupReq EXCEPT ![q] = [IdleGroupRequest EXCEPT !.step = "move", !.group = g, !.parent = p]]
  BY DEF PostMove, GroupRequestArrives
<1>2. UNCHANGED <<groupRow, orgRows, unused, late>>
  BY DEF PostMove
<1>3. PICK n : n = [IdleGroupRequest EXCEPT !.step = "move", !.group = g, !.parent = p]
  OBVIOUS
<1>4. /\ n.step = "move" /\ n.group = g /\ n.parent = p /\ n.org = NoGroup /\ n.ends = FALSE
      /\ n \in GroupRequest
  BY <1>3 DEF IdleGroupRequest, GroupRequest, GroupSteps, Groups
<1>5. {g, p, NoGroup} \cap unused = {} /\ p # NoGroup
  BY GroupTreeAssumption DEF OrgInv, IdsDrawn, GroupsInv, GroupsTypeOK, Groups
<1>6. Owned(n)
  BY <1>1, <1>4, <1>5 DEF Owned
<1> QED
  BY <1>1, <1>2, <1>3, <1>4, <1>6, OrgRests

\* A deletion begins: of the group, or of the organization that the group is the root of.
LEMMA StartDeleteOwns ==
  ASSUME OrgInv, GroupsInv', NEW q \in GroupRequests, StartDelete(q) \/ StartDeleteOrganization(q)
  PROVE  OrgInv'
<1>1. UNCHANGED <<groupRow, orgRows, unused, late>>
  BY DEF StartDelete, StartDeleteOrganization
<1>2. NoGroup \notin unused /\ NoGroup \notin OrgIds /\ NoGroup \notin GroupIds
  BY GroupTreeAssumption DEF OrgInv, GroupsInv, GroupsTypeOK
<1>3. CASE StartDelete(q)
  <2>1. PICK g \in Groups : groupReq' = [groupReq EXCEPT ![q] = [IdleGroupRequest EXCEPT !.step = "find", !.group = g]]
    BY <1>3 DEF StartDelete, GroupRequestArrives
  <2>2. PICK n : n = [IdleGroupRequest EXCEPT !.step = "find", !.group = g]
    OBVIOUS
  <2>3. /\ n.step = "find" /\ n.group = g /\ n.parent = NoGroup /\ n.org = NoGroup /\ n.ends = FALSE
        /\ n \in GroupRequest
    BY <2>2 DEF IdleGroupRequest, GroupRequest, GroupSteps, Groups
  <2>4. Owned(n)
    BY <1>2, <2>3 DEF Owned, OrgInv, IdsDrawn
  <2> QED
    BY <1>1, <2>1, <2>2, <2>3, <2>4, OrgRests
<1>4. CASE StartDeleteOrganization(q)
  <2>1. ASSUME NEW n \in GroupRequest, groupReq' = [groupReq EXCEPT ![q] = n], NEW o \in orgRows,
               n.org = o, n.ends = TRUE, n.parent = NoGroup,
               \/ n.step = "find" /\ n.group \in OrganizationRoots(o)
               \/ n.step = "deleteOrg" /\ n.group = NoGroup /\ OrganizationRoots(o) = {}
        PROVE  OrgInv'
    <3>1. o \in OrgIds /\ o \notin unused
      BY DEF OrgInv, IdsDrawn, GroupsInv, GroupsTypeOK
    <3>2. n.group \notin unused
      BY <1>2, <2>1, RootsAre DEF OrgInv, IdsDrawn
    <3>3. OrganizationRoots(o) \subseteq late \cup (IF n.step = "deleteOrg" THEN {} ELSE {n.group})
      BY <2>1, <3>1 DEF OrgInv, OneRoot
    <3>4. Owned(n)
      BY <1>2, <2>1, <3>1, <3>2, <3>3 DEF Owned
    <3> QED
      BY <1>1, <2>1, <3>4, OrgRests
  <2>2. PICK o \in orgRows :
          \/ \E g \in OrganizationRoots(o) :
               groupReq' = [groupReq EXCEPT ![q] = [[IdleGroupRequest EXCEPT !.org = o, !.ends = TRUE]
                                                      EXCEPT !.step = "find", !.group = g]]
          \/ /\ OrganizationRoots(o) = {}
             /\ groupReq' = [groupReq EXCEPT ![q] = [[IdleGroupRequest EXCEPT !.org = o, !.ends = TRUE]
                                                      EXCEPT !.step = "deleteOrg"]]
    BY <1>4 DEF StartDeleteOrganization, GroupRequestArrives
  <2>3. o \in OrgIds
    BY DEF OrgInv, GroupsInv, GroupsTypeOK
  <2>4. ASSUME NEW g \in OrganizationRoots(o), NEW n,
               n = [[IdleGroupRequest EXCEPT !.org = o, !.ends = TRUE] EXCEPT !.step = "find", !.group = g],
               groupReq' = [groupReq EXCEPT ![q] = n]
        PROVE  OrgInv'
    <3>1. g \in GroupIds
      BY RootsAre DEF Groups
    <3>2. /\ n.org = o /\ n.ends = TRUE /\ n.parent = NoGroup /\ n.step = "find" /\ n.group = g
          /\ n \in GroupRequest
      BY <2>3, <2>4, <3>1 DEF IdleGroupRequest, GroupRequest, GroupSteps
    <3> QED
      BY <2>1, <2>4, <3>2
  <2>5. ASSUME OrganizationRoots(o) = {}, NEW n,
               n = [[IdleGroupRequest EXCEPT !.org = o, !.ends = TRUE] EXCEPT !.step = "deleteOrg"],
               groupReq' = [groupReq EXCEPT ![q] = n]
        PROVE  OrgInv'
    <3>1. /\ n.org = o /\ n.ends = TRUE /\ n.parent = NoGroup /\ n.step = "deleteOrg" /\ n.group = NoGroup
          /\ n \in GroupRequest
      BY <2>3, <2>5 DEF IdleGroupRequest, GroupRequest, GroupSteps
    <3> QED
      BY <2>1, <2>5, <3>1
  <2> QED
    BY <2>2, <2>4, <2>5
<1> QED
  BY <1>3, <1>4

LEMMA WalkOwns ==
  ASSUME OrgInv, GroupsInv', NEW q \in GroupRequests, FindForDelete(q) \/ WalkSubtree(q)
  PROVE  OrgInv'
<1>1. UNCHANGED <<groupRow, orgRows, unused, late>>
  BY DEF FindForDelete, WalkSubtree
<1>2. PICK r \in GroupRequest : r = groupReq[q] /\ Owned(r)
  BY DEF OrgInv, RequestsOwned, GroupsInv, GroupsTypeOK
<1>3. CASE FindForDelete(q) /\ r.group \in Groups
  <2>1. PICK n : n = [r EXCEPT !.step = "walk", !.out = {r.group}, !.todo = {r.group}]
    OBVIOUS
  <2>2. /\ n \in GroupRequest /\ n.step = "walk" /\ n.out = {r.group}
        /\ n.group = r.group /\ n.parent = r.parent /\ n.org = r.org /\ n.ends = r.ends
    BY <1>3, <2>1 DEF GroupRequest, GroupSteps, Groups
  <2>3. groupReq' = [groupReq EXCEPT ![q] = n] /\ r.step = "find"
    BY <1>2, <1>3, <2>1 DEF FindForDelete
  <2>4. Owned(n)
    BY <1>2, <2>2, <2>3 DEF Owned
  <2> QED
    BY <1>1, <2>2, <2>3, <2>4, OrgRests
<1>4. CASE FindForDelete(q) /\ r.group \notin Groups
  BY <1>1, <1>2, <1>4, EndingsOwn DEF FindForDelete
<1>5. CASE WalkSubtree(q)
  <2>1. \A g : SubGroups(g) \subseteq GroupIds
    BY DEF SubGroups, Groups
  <2>2. PICK out, todo \in SUBSET GroupIds : \E s \in {"walk", "delete"} :
          /\ r.step = "walk" /\ r.out \subseteq out
          /\ groupReq' = [groupReq EXCEPT ![q] = [r EXCEPT !.step = s, !.out = out, !.todo = todo]]
    <3>1. ASSUME NEW g \in r.todo, groupReq' = [groupReq EXCEPT ![q].out = @ \cup SubGroups(g),
                                                              ![q].todo = (@ \ {g}) \cup SubGroups(g)]
          PROVE  \E out, todo \in SUBSET GroupIds : \E s \in {"walk", "delete"} :
                   /\ r.step = "walk" /\ r.out \subseteq out
                   /\ groupReq' = [groupReq EXCEPT ![q] = [r EXCEPT !.step = s, !.out = out, !.todo = todo]]
      <4>1. PICK out, todo \in SUBSET GroupIds :
              out = r.out \cup SubGroups(g) /\ todo = (r.todo \ {g}) \cup SubGroups(g)
        <5>1. r.out \cup SubGroups(g) \in SUBSET GroupIds /\ (r.todo \ {g}) \cup SubGroups(g) \in SUBSET GroupIds
          BY <2>1 DEF GroupRequest
        <5> QED
          BY <5>1
      <4>2. r.step = "walk"
        BY <1>2, <1>5 DEF WalkSubtree
      <4>3. groupReq' = [groupReq EXCEPT ![q] = [r EXCEPT !.step = "walk", !.out = out, !.todo = todo]]
        <5>1. groupReq' = [groupReq EXCEPT ![q] = [r EXCEPT !.out = out, !.todo = todo]]
          BY <1>2, <3>1, <4>1
        <5>2. [r EXCEPT !.out = out, !.todo = todo] = [r EXCEPT !.step = "walk", !.out = out, !.todo = todo]
          BY <4>2 DEF GroupRequest
        <5> QED
          BY <5>1, <5>2
      <4> QED
        BY <4>1, <4>2, <4>3
    <3>2. ASSUME groupReq' = [groupReq EXCEPT ![q].step = "delete"]
          PROVE  \E out, todo \in SUBSET GroupIds : \E s \in {"walk", "delete"} :
                   /\ r.step = "walk" /\ r.out \subseteq out
                   /\ groupReq' = [groupReq EXCEPT ![q] = [r EXCEPT !.step = s, !.out = out, !.todo = todo]]
      <4>1. r.out \in SUBSET GroupIds /\ r.todo \in SUBSET GroupIds
        BY DEF GroupRequest
      <4>2. [r EXCEPT !.step = "delete"] = [r EXCEPT !.step = "delete", !.out = r.out, !.todo = r.todo]
        BY DEF GroupRequest
      <4>3. groupReq' = [groupReq EXCEPT ![q] = [r EXCEPT !.step = "delete", !.out = r.out, !.todo = r.todo]]
        BY <1>2, <3>2, <4>2
      <4>4. r.step = "walk"
        BY <1>2, <1>5 DEF WalkSubtree
      <4> QED
        BY <4>1, <4>3, <4>4
    <3> QED
      BY <1>2, <1>5, <3>1, <3>2 DEF WalkSubtree
  <2>3. PICK s \in {"walk", "delete"} :
          /\ r.step = "walk" /\ r.out \subseteq out
          /\ groupReq' = [groupReq EXCEPT ![q] = [r EXCEPT !.step = s, !.out = out, !.todo = todo]]
    BY <2>2
  <2>4. PICK n : n = [r EXCEPT !.step = s, !.out = out, !.todo = todo]
    OBVIOUS
  <2>5. /\ n \in GroupRequest /\ n.step = s /\ n.out = out
        /\ n.group = r.group /\ n.parent = r.parent /\ n.org = r.org /\ n.ends = r.ends
    BY <2>4 DEF GroupRequest, GroupSteps
  <2>6. Owned(n)
    BY <1>2, <2>3, <2>5 DEF Owned
  <2> QED
    BY <1>1, <2>3, <2>4, <2>5, <2>6, OrgRests
<1> QED
  BY <1>3, <1>4, <1>5

LEMMA ServedOwns ==
  ASSUME OrgInv, GroupsInv', NEW q \in GroupRequests,
         SetMembership(q) \/ SetDefaultGroup(q) \/ CutGroupRequest(q)
  PROVE  OrgInv'
BY EndingsOwn DEF SetMembership, SetDefaultGroup, CutGroupRequest, GroupRequestServed

LEMMA CreateOrganizationOwns ==
  ASSUME OrgInv, GroupsInv', NEW q \in GroupRequests, CreateOrganization(q)
  PROVE  OrgInv'
<1>1. PICK o \in OrgIds \cap unused :
        /\ orgRows' = orgRows \cup {o} /\ unused' = unused \ {o}
        /\ groupReq' = [groupReq EXCEPT ![q] = [IdleGroupRequest EXCEPT !.step = "root", !.org = o]]
  BY DEF CreateOrganization, GroupRequestArrives
<1>2. groupRow' = groupRow /\ late' = late
  BY DEF CreateOrganization
<1>3. PICK n : n = [IdleGroupRequest EXCEPT !.step = "root", !.org = o]
  OBVIOUS
<1>4. /\ n \in GroupRequest /\ n.step = "root" /\ n.org = o
      /\ n.group = NoGroup /\ n.parent = NoGroup /\ n.ends = FALSE
  BY <1>3 DEF IdleGroupRequest, GroupRequest, GroupSteps
<1>5. Groups' = Groups /\ \A x : OrganizationRoots(x)' = OrganizationRoots(x)
  BY <1>2 DEF Groups, OrganizationRoots, SubGroups
<1>6. IdsDrawn' /\ OrgFollows' /\ OneRoot' /\ RootsGone'
  BY <1>1, <1>2, <1>5 DEF OrgInv, IdsDrawn, OrgFollows, OneRoot, RootsGone
<1>7. RequestsOwned'
  <2>1. OrgsStay
    BY <1>1, <1>2, <1>5 DEF OrgsStay
  <2>2. NoGroup \notin unused /\ o # NoGroup
    BY GroupTreeAssumption DEF OrgInv, GroupsInv, GroupsTypeOK
  <2>3. \A g \in Groups : groupRow[g].org # o
    BY DEF OrgInv, IdsDrawn
  <2>4. Owned(n)'
    BY <1>1, <1>2, <1>4, <1>5, <2>2, <2>3 DEF Owned
  <2> QED
    BY <1>1, <1>3, <1>4, <1>5, <2>1, <2>4, RequestsStay
<1>8. RootAlone'
  <2>1. \A p \in GroupRequests : groupReq[p].org # o
    BY DEF OrgInv, RequestsOwned, Owned, GroupsInv, GroupsTypeOK
  <2> QED
    BY <1>1, <1>3, <1>4, <2>1, RootAloneStays
<1> QED
  BY <1>6, <1>7, <1>8 DEF OrgInv

LEMMA DeleteOrganizationRowOwns ==
  ASSUME OrgInv, GroupsInv', NEW q \in GroupRequests, DeleteOrganizationRow(q)
  PROVE  OrgInv'
<1>1. PICK r \in GroupRequest : r = groupReq[q] /\ Owned(r)
  BY DEF OrgInv, RequestsOwned, GroupsInv, GroupsTypeOK
<1>2. /\ r.step = "deleteOrg" /\ orgRows' = orgRows \ {r.org} /\ UNCHANGED <<groupRow, unused, late>>
      /\ groupReq' = [groupReq EXCEPT ![q] = OverGroupRequest]
  BY <1>1 DEF DeleteOrganizationRow, GroupRequestEnds
<1>3. OrganizationRoots(r.org) \subseteq late
  BY <1>1, <1>2 DEF Owned
<1>4. Groups' = Groups /\ \A x : OrganizationRoots(x)' = OrganizationRoots(x)
  BY <1>2 DEF Groups, OrganizationRoots, SubGroups
<1>5. IdsDrawn' /\ OrgFollows' /\ OneRoot' /\ RootsGone'
  BY <1>2, <1>3, <1>4 DEF OrgInv, IdsDrawn, OrgFollows, OneRoot, RootsGone
<1>6. RequestsOwned'
  <2>1. OrgsStay
    BY <1>2, <1>4 DEF OrgsStay
  <2>2. Owned(OverGroupRequest)'
    BY <1>2, <1>4, OverOwned DEF Owned, OrgInv, GroupsInv
  <2> QED
    BY <1>2, <1>4, <2>1, <2>2, RequestsStay, OverOwned
<1>7. RootAlone'
  BY <1>2, RootAloneStays, OverOwned
<1> QED
  BY <1>5, <1>6, <1>7 DEF OrgInv

\* A group is written: a new one, or one that stays in its organization.
LEMMA PutOwns ==
  ASSUME OrgInv, GroupsInv', NEW q \in GroupRequests,
         NEW g \in GroupIds, NEW p \in GroupIds \cup {NoGroup}, NEW o \in OrgIds \cup {NoGroup},
         groupRow' = [groupRow EXCEPT ![g] = [parent |-> p, org |-> o]],
         g \in unused \/ (g \in Groups /\ groupRow[g].org = o),
         unused' = unused \ {g}, orgRows' = orgRows, late \subseteq late',
         groupReq' = [groupReq EXCEPT ![q] = OverGroupRequest],
         {p, o} \cap unused = {},
         o # NoGroup /\ p \in Groups => groupRow[p].org = o,
         g \in unused => \A x \in GroupRequests \ {q} : groupReq[x].step = "root" => groupReq[x].org # o,
         p = NoGroup /\ o # NoGroup =>
           /\ \A x \in Groups : groupRow[x].org # o
           /\ o \notin orgRows \/ BeingDeleted(o) => g \in late'
  PROVE  OrgInv'
<1>1. Groups' = Groups \cup {g} /\ Groups \subseteq GroupIds
  <2>1. [parent |-> p, org |-> o] \in GroupRow
    BY DEF GroupRow
  <2>2. [parent |-> p, org |-> o] # NoGroup
    BY <2>1, GroupTreeAssumption
  <2> QED
    BY <2>2 DEF Groups, OrgInv, GroupsInv, GroupsTypeOK
<1>2. groupRow'[g].parent = p /\ groupRow'[g].org = o
  BY DEF OrgInv, GroupsInv, GroupsTypeOK
<1>3. \A x \in GroupIds : x # g => groupRow'[x] = groupRow[x]
  BY DEF OrgInv, GroupsInv, GroupsTypeOK
<1>4. \A x \in Groups : groupRow'[x].org = groupRow[x].org
  <2>1. g \in Groups => groupRow[g].org = o
    BY DEF OrgInv, IdsDrawn
  <2> QED
    BY <1>1, <1>2, <1>3, <2>1
<1>5. NoGroup \notin OrgIds /\ NoGroup \notin GroupIds
  BY GroupTreeAssumption
<1>6. IdsDrawn'
  <2>1. orgRows' \cap unused' = {}
    BY DEF OrgInv, IdsDrawn
  <2>2. ASSUME NEW x \in Groups' PROVE {x, groupRow'[x].parent, groupRow'[x].org} \cap unused' = {}
    <3>1. CASE x = g
      BY <1>2, <3>1
    <3>2. CASE x # g
      BY <1>1, <1>3, <3>2 DEF OrgInv, IdsDrawn
    <3> QED
      BY <3>1, <3>2
  <2> QED
    BY <2>1, <2>2 DEF IdsDrawn
<1>7. OrgFollows'
  <2> SUFFICES ASSUME NEW x \in Groups' \ late', groupRow'[x].org # NoGroup, groupRow'[x].parent \in Groups'
               PROVE  groupRow'[groupRow'[x].parent].org = groupRow'[x].org
    BY DEF OrgFollows
  <2>1. CASE x = g
    <3>1. (p \in Groups /\ o # NoGroup) \/ p = g
      BY <1>1, <1>2, <2>1
    <3> QED
      BY <1>1, <1>2, <1>4, <2>1, <3>1
  <2>2. CASE x # g
    <3>1. x \in Groups \ late /\ groupRow'[x] = groupRow[x]
      BY <1>1, <1>3, <2>2
    <3>2. groupRow[x].parent \notin unused
      BY <3>1 DEF OrgInv, IdsDrawn
    <3>3. groupRow[x].parent \in Groups
      BY <1>1, <3>1, <3>2
    <3> QED
      BY <1>4, <3>1, <3>3 DEF OrgInv, OrgFollows
  <2> QED
    BY <2>1, <2>2
<1>8. \A a \in OrgIds : \/ OrganizationRoots(a)' \subseteq OrganizationRoots(a)
                        \/ a = o /\ p = NoGroup /\ OrganizationRoots(a)' \subseteq {g}
  <2> TAKE a \in OrgIds
  <2>1. OrganizationRoots(a)' = {x \in Groups' : groupRow'[x].parent = NoGroup /\ groupRow'[x].org = a}
    BY RootsAre DEF OrganizationRoots, SubGroups
  <2>2. OrganizationRoots(a) = {x \in Groups : groupRow[x].parent = NoGroup /\ groupRow[x].org = a}
    BY RootsAre
  <2>3. CASE a = o /\ p = NoGroup
    BY <1>1, <1>3, <1>5, <2>1, <2>3
  <2>4. CASE ~(a = o /\ p = NoGroup)
    BY <1>1, <1>2, <1>3, <2>1, <2>2, <2>4
  <2> QED
    BY <2>3, <2>4
<1>9. OneRoot'
  BY <1>8 DEF OrgInv, OneRoot
<1>10. RootsGone'
  BY <1>5, <1>8 DEF OrgInv, RootsGone
<1>11. RequestsOwned'
  <2>1. OrgsStay
    BY <1>1, <1>4 DEF OrgsStay
  <2>2. ASSUME NEW x \in GroupRequests, groupReq[x].step = "root", x # q
        PROVE  \A y \in Groups' \ Groups : groupRow'[y].org # groupReq[x].org
    BY <1>1, <1>2, <2>2
  <2>3. ASSUME NEW x \in GroupRequests, groupReq[x].ends, NEW a \in OrgIds, a = groupReq[x].org
        PROVE  OrganizationRoots(a)' \subseteq OrganizationRoots(a) \cup late'
    BY <1>5, <1>8, <2>3 DEF BeingDeleted
  <2>4. Owned(OverGroupRequest)'
    <3>1. GroupsTypeOK'
      BY DEF GroupsInv
    <3>2. NoGroup \notin unused'
      BY <1>5, <3>1 DEF GroupsTypeOK
    <3>3. /\ OverGroupRequest.group = NoGroup /\ OverGroupRequest.parent = NoGroup /\ OverGroupRequest.org = NoGroup
          /\ OverGroupRequest.ends = FALSE /\ OverGroupRequest.step = "over"
      BY DEF OverGroupRequest, IdleGroupRequest
    <3> QED
      BY <3>2, <3>3 DEF Owned
  <2> QED
    BY <2>1, <2>2, <2>3, <2>4, RequestsStay, OverOwned
<1>12. RootAlone'
  BY RootAloneStays, OverOwned
<1> QED
  BY <1>6, <1>7, <1>9, <1>10, <1>11, <1>12 DEF OrgInv

LEMMA InsertOwns ==
  ASSUME OrgInv, GroupsInv', NEW q \in GroupRequests, InsertGroup(q)
  PROVE  OrgInv'
<1>1. PICK r \in GroupRequest : r = groupReq[q] /\ Owned(r)
  BY DEF OrgInv, RequestsOwned, GroupsInv, GroupsTypeOK
<1>2. PICK g \in GroupIds \cap unused :
        /\ r.step = "insert" /\ groupRow' = [groupRow EXCEPT ![g] = [parent |-> r.parent, org |-> r.org]]
        /\ late \subseteq late' /\ unused' = unused \ {g} /\ orgRows' = orgRows
        /\ groupReq' = [groupReq EXCEPT ![q] = OverGroupRequest]
  BY <1>1 DEF InsertGroup, PutBelow, GroupRequestEnds
<1>3. r.parent \in GroupIds \cup {NoGroup} /\ r.org \in OrgIds \cup {NoGroup}
  BY DEF GroupRequest
<1>4. /\ {r.parent, r.org} \cap unused = {}
      /\ r.org # NoGroup => r.parent # NoGroup /\ (r.parent \in Groups => groupRow[r.parent].org = r.org)
  BY <1>1, <1>2 DEF Owned
<1>5. \A x \in GroupRequests \ {q} : groupReq[x].step = "root" => groupReq[x].org # r.org
  BY <1>1, <1>2 DEF OrgInv, RootAlone
<1> QED
  BY <1>2, <1>3, <1>4, <1>5, PutOwns

LEMMA MoveOwns ==
  ASSUME OrgInv, GroupsInv', NEW q \in GroupRequests, MoveGroup(q)
  PROVE  OrgInv'
<1>1. PICK r \in GroupRequest : r = groupReq[q] /\ Owned(r)
  BY DEF OrgInv, RequestsOwned, GroupsInv, GroupsTypeOK
<1>2. r.step = "move" /\ UNCHANGED <<orgRows, unused>> /\ GroupRequestEnds(q)
  BY <1>1 DEF MoveGroup
<1>3. CASE r.group \notin Groups
  BY <1>1, <1>2, <1>3, EndingsOwn DEF MoveGroup
<1>4. CASE r.group \in Groups
  <2>1. PICK g \in Groups : g = r.group
    BY <1>4
  <2>2. /\ groupRow' = [groupRow EXCEPT ![g] = [parent |-> r.parent, org |-> groupRow[g].org]]
        /\ late \subseteq late'
    BY <1>1, <2>1 DEF MoveGroup, PutBelow
  <2>3. r.parent \in GroupIds /\ g \in GroupIds /\ groupRow[g].org \in OrgIds \cup {NoGroup}
    BY <1>1, <1>2, RowTypes DEF Owned, GroupRequest, OrgInv, GroupsInv
  <2>4. r.parent \notin unused /\ groupRow[g].org \notin unused /\ g \notin unused /\ r.parent # NoGroup
    BY <1>1, <1>2 DEF Owned, OrgInv, IdsDrawn
  <2>5. r.parent \in Groups => groupRow[r.parent].org = groupRow[g].org
    BY <1>1, <1>2, <2>1 DEF Owned
  <2>6. unused' = unused \ {g}
    BY <1>2, <2>4
  <2> QED
    <3>1. PICK o \in OrgIds \cup {NoGroup} : o = groupRow[g].org
      BY <2>3
    <3>2. PICK p \in GroupIds : p = r.parent
      BY <2>3
    <3>3. groupRow' = [groupRow EXCEPT ![g] = [parent |-> p, org |-> o]] /\ late \subseteq late'
      BY <2>2, <3>1, <3>2
    <3>4. {p, o} \cap unused = {} /\ g \notin unused /\ p # NoGroup
      BY <2>4, <3>1, <3>2
    <3>5. p \in Groups => groupRow[p].org = o
      BY <2>5, <3>1, <3>2
    <3>6. orgRows' = orgRows /\ groupReq' = [groupReq EXCEPT ![q] = OverGroupRequest]
      BY <1>2 DEF GroupRequestEnds
    <3> QED
      BY <2>3, <2>6, <3>1, <3>3, <3>4, <3>5, <3>6, PutOwns
<1> QED
  BY <1>3, <1>4

LEMMA CreateRootOwns ==
  ASSUME OrgInv, GroupsInv', NEW q \in GroupRequests, CreateOrganizationRoot(q)
  PROVE  OrgInv'
<1>1. PICK r \in GroupRequest : r = groupReq[q] /\ Owned(r)
  BY DEF OrgInv, RequestsOwned, GroupsInv, GroupsTypeOK
<1>2. PICK g \in GroupIds \cap unused :
        /\ r.step = "root" /\ groupRow' = [groupRow EXCEPT ![g] = [parent |-> NoGroup, org |-> r.org]]
        /\ late \subseteq late' /\ (r.org \notin orgRows \/ BeingDeleted(r.org) => g \in late')
        /\ unused' = unused \ {g} /\ orgRows' = orgRows
        /\ groupReq' = [groupReq EXCEPT ![q] = OverGroupRequest]
  BY <1>1 DEF CreateOrganizationRoot, GroupRequestEnds
<1>3. NoGroup \notin unused /\ NoGroup \notin Groups
  BY GroupTreeAssumption DEF OrgInv, GroupsInv, GroupsTypeOK, Groups
<1>4. r.org \in OrgIds /\ r.org \notin unused /\ \A x \in Groups : groupRow[x].org # r.org
  BY <1>1, <1>2 DEF Owned, GroupRequest
<1>5. \A x \in GroupRequests \ {q} : groupReq[x].step = "root" => groupReq[x].org # r.org
  BY <1>1, <1>2 DEF OrgInv, RootAlone
<1>6. PICK o \in OrgIds : o = r.org
  BY <1>4
<1>7. o \notin orgRows \/ BeingDeleted(o) => g \in late'
  BY <1>2, <1>6
<1>8. groupRow' = [groupRow EXCEPT ![g] = [parent |-> NoGroup, org |-> o]]
  BY <1>2, <1>6
<1>9. {NoGroup, o} \cap unused = {} /\ \A x \in Groups : groupRow[x].org # o
  BY <1>3, <1>4, <1>6
<1> QED
  BY <1>2, <1>3, <1>5, <1>6, <1>7, <1>8, <1>9, PutOwns

LEMMA DeleteSubtreeOwns ==
  ASSUME OrgInv, GroupsInv', NEW q \in GroupRequests, DeleteSubtree(q)
  PROVE  OrgInv'
<1>1. PICK r \in GroupRequest : r = groupReq[q] /\ Owned(r)
  BY DEF OrgInv, RequestsOwned, GroupsInv, GroupsTypeOK
<1>2. PICK n : n = IF r.ends THEN [r EXCEPT !.step = "deleteOrg", !.out = {}] ELSE OverGroupRequest
  OBVIOUS
<1>3. /\ groupRow' = [g \in GroupIds |-> IF g \in r.out THEN NoGroup ELSE groupRow[g]]
      /\ r.step = "delete" /\ groupReq' = [groupReq EXCEPT ![q] = n]
      /\ UNCHANGED <<orgRows, unused, late>>
  BY <1>1, <1>2 DEF DeleteSubtree
<1>4. Groups' = Groups \ r.out /\ \A x \in Groups' : groupRow'[x] = groupRow[x]
  BY <1>3 DEF Groups
<1>5. \A o : OrganizationRoots(o)' = OrganizationRoots(o) \ r.out
  <2> TAKE o
  <2>1. OrganizationRoots(o)' = {x \in Groups' : groupRow'[x].parent = NoGroup /\ groupRow'[x].org = o}
    BY DEF OrganizationRoots, SubGroups
  <2> QED
    BY <1>4, <2>1, RootsAre
<1>6. IdsDrawn' /\ OrgFollows' /\ OneRoot' /\ RootsGone'
  <2>1. IdsDrawn'
    BY <1>3, <1>4 DEF OrgInv, IdsDrawn
  <2>2. OrgFollows'
    BY <1>3, <1>4 DEF OrgInv, OrgFollows
  <2>3. OneRoot' /\ RootsGone'
    BY <1>3, <1>5 DEF OrgInv, OneRoot, RootsGone
  <2> QED
    BY <2>1, <2>2, <2>3
<1>7. n \in GroupRequest /\ n.step \notin {"root", "insert"}
  BY <1>2, OverOwned DEF GroupRequest, GroupSteps
<1>8. RequestsOwned'
  <2>1. OrgsStay
    BY <1>3, <1>4 DEF OrgsStay
  <2>2. ASSUME r.ends PROVE Owned(n)'
    <3>1. /\ n.step = "deleteOrg" /\ n.ends = r.ends /\ n.org = r.org /\ n.group = r.group /\ n.parent = r.parent
      BY <1>2, <2>2 DEF GroupRequest
    <3>2. r.group \in r.out /\ OrganizationRoots(r.org) \subseteq late \cup {r.group} /\ r.org # NoGroup
      BY <1>1, <1>3, <2>2 DEF Owned
    <3>3. OrganizationRoots(n.org)' \subseteq late'
      BY <1>3, <1>5, <3>1, <3>2
    <3>4. {n.group, n.parent, n.org} \cap unused' = {}
      BY <1>1, <1>3, <3>1 DEF Owned
    <3> QED
      BY <2>2, <3>1, <3>2, <3>3, <3>4 DEF Owned
  <2>3. ASSUME Owned(n)' PROVE RequestsOwned'
    BY <1>3, <1>4, <1>5, <1>7, <2>1, <2>3, RequestsStay
  <2>4. ~r.ends => Owned(n)'
    <3>1. ~r.ends => Owned(n) /\ n.step = "over" /\ n.ends = FALSE
      BY <1>2, OverOwned DEF OrgInv, GroupsInv, OverGroupRequest, IdleGroupRequest
    <3> QED
      BY <1>3, <3>1 DEF Owned
  <2> QED
    BY <2>2, <2>3, <2>4
<1>9. RootAlone'
  BY <1>3, <1>7, RootAloneStays
<1> QED
  BY <1>6, <1>8, <1>9 DEF OrgInv

LEMMA OrgStart == GroupsInit => OrgInv
<1> SUFFICES ASSUME GroupsInit PROVE OrgInv
  OBVIOUS
<1>1. GroupsInv
  BY GroupsStart
<1>2. Groups = {g \in GroupIds : SeedGroups[g] # NoGroup} /\ groupRow = SeedGroups
  BY DEF GroupsInit, Groups
<1>3. /\ \A g \in Groups : groupRow[g].org \in SeedOrgs \cup {NoGroup}
      /\ \A g \in Groups : groupRow[g].org # NoGroup /\ groupRow[g].parent # NoGroup
                             => groupRow[groupRow[g].parent].org = groupRow[g].org
      /\ \A g, h \in Groups : groupRow[g] = groupRow[h] /\ groupRow[g].parent = NoGroup
                                => g = h \/ groupRow[g].org = NoGroup
  BY <1>2, GroupTreeSeedAssumption
<1>4. \A g \in Groups : groupRow[g].parent \in Groups \cup {NoGroup}
  BY <1>2, GroupTreeAssumption
<1>5. NoGroup \notin GroupIds /\ NoGroup \notin OrgIds /\ GroupIds \cap OrgIds = {} /\ SeedOrgs \subseteq OrgIds
      /\ Groups \subseteq GroupIds
  BY GroupTreeAssumption DEF Groups
<1>6. orgRows = SeedOrgs /\ unused = (GroupIds \cup OrgIds) \ (SeedOrgs \cup Groups)
  BY <1>2 DEF GroupsInit
<1>7. IdsDrawn
  <2>1. \A g \in Groups : {g, groupRow[g].parent, groupRow[g].org} \cap unused = {}
    BY <1>3, <1>4, <1>5, <1>6
  <2> QED
    BY <1>6, <2>1 DEF IdsDrawn
<1>8. OrgFollows
  BY <1>3, <1>5 DEF OrgFollows
<1>9. OneRoot
  <2> SUFFICES ASSUME NEW o \in OrgIds, NEW g \in OrganizationRoots(o), NEW h \in OrganizationRoots(o) PROVE g = h
    BY DEF OneRoot
  <2>1. /\ g \in Groups /\ h \in Groups /\ groupRow[g].parent = NoGroup /\ groupRow[h].parent = NoGroup
        /\ groupRow[g].org = o /\ groupRow[h].org = o
    BY RootsAre
  <2>2. groupRow[g] \in GroupRow /\ groupRow[h] \in GroupRow
    BY <1>1, <2>1 DEF GroupsInv, GroupsTypeOK, Groups
  <2>3. groupRow[g] = groupRow[h]
    BY <2>1, <2>2 DEF GroupRow
  <2> QED
    BY <1>3, <1>5, <2>1, <2>3
<1>10. RootsGone
  BY <1>3, <1>5, <1>6, RootsAre DEF RootsGone
<1>11. RequestsOwned
  BY <1>1, OverOwned DEF RequestsOwned, GroupsInit, GroupsInv
<1>12. RootAlone
  BY DEF RootAlone, GroupsInit, IdleGroupRequest
<1> QED
  BY <1>1, <1>7, <1>8, <1>9, <1>10, <1>11, <1>12 DEF OrgInv

LEMMA OrgStep == OrgInv /\ [GroupsNext]_groupsVars => OrgInv'
<1> SUFFICES ASSUME OrgInv, [GroupsNext]_groupsVars PROVE OrgInv'
  OBVIOUS
<1>1. GroupsInv'
  BY GroupsStep DEF OrgInv
<1>2. CASE UNCHANGED groupsVars
  <2>1. UNCHANGED <<groupRow, orgRows, unused, groupReq, late>>
    BY <1>2 DEF groupsVars
  <2>2. Groups' = Groups /\ \A o : OrganizationRoots(o)' = OrganizationRoots(o)
    BY <2>1 DEF Groups, OrganizationRoots, SubGroups
  <2>3. IdsDrawn' /\ OrgFollows' /\ OneRoot' /\ RootsGone' /\ RootAlone'
    BY <2>1, <2>2 DEF OrgInv, IdsDrawn, OrgFollows, OneRoot, RootsGone, RootAlone
  <2>4. RequestsOwned'
    BY <2>1, <2>2 DEF OrgInv, RequestsOwned, Owned
  <2> QED
    BY <1>1, <2>3, <2>4 DEF OrgInv
<1>3. ASSUME NEW q \in GroupRequests,
             \/ PostGroup(q) \/ InsertGroup(q) \/ PostMove(q) \/ MoveGroup(q)
             \/ CreateOrganization(q) \/ CreateOrganizationRoot(q)
             \/ SetMembership(q) \/ SetDefaultGroup(q)
             \/ StartDelete(q) \/ StartDeleteOrganization(q) \/ FindForDelete(q) \/ WalkSubtree(q)
             \/ DeleteSubtree(q) \/ DeleteOrganizationRow(q) \/ CutGroupRequest(q)
      PROVE  OrgInv'
  BY <1>1, <1>3, PostGroupOwns, InsertOwns, PostMoveOwns, MoveOwns, CreateOrganizationOwns, CreateRootOwns,
     ServedOwns, StartDeleteOwns, WalkOwns, DeleteSubtreeOwns, DeleteOrganizationRowOwns
<1> QED
  BY <1>2, <1>3 DEF GroupsNext

-----------------------------------------------------------------------------
(* The groups above a group *)

LevelUp(s) == s \cup ({groupRow[x].parent : x \in s \cap Groups} \ {NoGroup})

LEMMA AboveLevels ==
  ASSUME NEW g
  PROVE  \E u : /\ u = [n \in 0..Cardinality(GroupIds) |-> IF n = 0 THEN {g} ELSE LevelUp(u[n - 1])]
                /\ Above(g) = u[Cardinality(GroupIds)]
<1>1. PICK N \in Nat : N = Cardinality(GroupIds)
  BY GroupTreeAssumption, FS_CardinalityType
<1> DEFINE Is(f, m) == f = [n \in 0..m |-> IF n = 0 THEN {g} ELSE LevelUp(f[n - 1])]
           S == {m \in 0..N : \E f : Is(f, m)}
<1>2. 0 \in S
  <2>1. PICK f : f = [n \in 0..0 |-> {g}]
    OBVIOUS
  <2>2. Is(f, 0)
    BY <2>1
  <2> QED
    BY <2>2
<1>3. ASSUME NEW m \in 0..N, m \in S, m < N PROVE m + 1 \in S
  <2>1. PICK f : Is(f, m)
    BY <1>3
  <2>2. PICK h : h = [n \in 0..(m + 1) |-> IF n = m + 1 THEN LevelUp(f[m]) ELSE f[n]]
    OBVIOUS
  <2>3. \A n \in 0..m : h[n] = f[n]
    BY <2>2
  <2>4. ASSUME NEW n \in 0..(m + 1) PROVE h[n] = IF n = 0 THEN {g} ELSE LevelUp(h[n - 1])
    <3>1. CASE n = m + 1
      <4>1. n # 0 /\ n - 1 = m /\ m \in 0..m
        BY <3>1
      <4> QED
        BY <2>2, <2>3, <3>1, <4>1
    <3>2. CASE n \in 0..m
      <4>1. h[n] = IF n = 0 THEN {g} ELSE LevelUp(f[n - 1])
        BY <2>1, <2>3, <3>2
      <4>2. n # 0 => n - 1 \in 0..m
        BY <3>2
      <4> QED
        BY <2>3, <4>1, <4>2
    <3> QED
      BY <3>1, <3>2
  <2>5. Is(h, m + 1)
    BY <2>2, <2>4
  <2> QED
    BY <1>3, <2>5
<1>4. 0..N \subseteq S
  <2> HIDE DEF S
  <2> QED
    BY <1>2, <1>3, LevelInduction
<1>5. PICK f : Is(f, N)
  BY <1>4
<1> DEFINE u == CHOOSE f2 : Is(f2, N)
<1>6. Is(u, N)
  BY <1>5
<1>7. Above(g) = u[N]
  BY <1>1 DEF Above, LevelUp
<1> QED
  BY <1>1, <1>6, <1>7

\* Above(g) is the least set that holds g and the parents of its groups.
LEMMA AboveIs ==
  ASSUME GroupsTypeOK, NEW g \in GroupIds
  PROVE  /\ g \in Above(g) /\ Above(g) \subseteq GroupIds
         /\ \A x \in Above(g) \cap Groups : groupRow[x].parent \in Above(g) \cup {NoGroup}
         /\ \A t : g \in t /\ (\A x \in t \cap Groups : groupRow[x].parent \in t \cup {NoGroup}) => Above(g) \subseteq t
<1>1. PICK N \in Nat : N = Cardinality(GroupIds)
  BY GroupTreeAssumption, FS_CardinalityType
<1>2. PICK u : /\ u = [n \in 0..N |-> IF n = 0 THEN {g} ELSE LevelUp(u[n - 1])]
               /\ Above(g) = u[N]
  BY <1>1, AboveLevels
<1>3. u[0] = {g} /\ \A n \in 0..N : n < N => u[n + 1] = LevelUp(u[n])
  <2>1. \A n \in 0..N : n < N => n + 1 \in 0..N /\ n + 1 # 0 /\ (n + 1) - 1 = n
    OBVIOUS
  <2>2. 0 \in 0..N
    OBVIOUS
  <2> QED
    BY <1>2, <2>1, <2>2
<1>4. \A s : s \subseteq GroupIds => s \subseteq LevelUp(s) /\ LevelUp(s) \subseteq GroupIds
  BY RowTypes DEF LevelUp
<1> DEFINE Stopped(s) == LevelUp(s) = s
<1>5. PICK S : S = {n \in 0..N : u[n] \subseteq GroupIds /\ g \in u[n] /\ (Stopped(u[n]) \/ n + 1 <= Cardinality(u[n]))}
  OBVIOUS
<1>6. 0 \in S
  <2>1. Cardinality({g}) = 1
    BY FS_Singleton
  <2>2. u[0] \subseteq GroupIds /\ g \in u[0] /\ 0 + 1 <= Cardinality(u[0])
    BY <1>3, <2>1
  <2> HIDE DEF Stopped
  <2> QED
    BY <1>5, <2>2
<1>7. ASSUME NEW n \in 0..N, n \in S, n < N PROVE n + 1 \in S
  <2>1. PICK s, t : s = u[n] /\ t = u[n + 1] /\ t = LevelUp(s)
    BY <1>3, <1>7
  <2>2. s \subseteq GroupIds /\ g \in s /\ (Stopped(s) \/ n + 1 <= Cardinality(s))
    BY <1>5, <1>7, <2>1
  <2>3. s \subseteq t /\ t \subseteq GroupIds
    BY <1>4, <2>1, <2>2
  <2>4. Stopped(t) \/ n + 2 <= Cardinality(t)
    <3>1. CASE Stopped(s)
      BY <2>1, <3>1
    <3>2. CASE ~Stopped(s)
      <4>1. n + 1 <= Cardinality(s) /\ s # t
        BY <2>1, <2>2, <3>2
      <4>2. IsFiniteSet(t)
        BY <2>3, GroupTreeAssumption, FS_Subset
      <4>3. IsFiniteSet(s) /\ Cardinality(s) <= Cardinality(t) /\ Cardinality(s) # Cardinality(t)
        BY <2>3, <4>1, <4>2, FS_Subset
      <4>4. Cardinality(s) \in Nat /\ Cardinality(t) \in Nat
        BY <4>2, <4>3, FS_CardinalityType
      <4> QED
        BY <4>1, <4>3, <4>4
    <3> QED
      BY <3>1, <3>2
  <2>5. n + 1 \in 0..N /\ (n + 1) + 1 = n + 2
    BY <1>7
  <2> HIDE DEF Stopped
  <2> QED
    BY <1>5, <2>1, <2>2, <2>3, <2>4, <2>5
<1>8. N \in S
  BY <1>6, <1>7, LevelInduction
<1>9. PICK a : a = Above(g)
  OBVIOUS
<1>10. a \subseteq GroupIds /\ g \in a /\ (Stopped(a) \/ N + 1 <= Cardinality(a))
  BY <1>2, <1>5, <1>8, <1>9
<1>11. LevelUp(a) = a
  <2>1. IsFiniteSet(a) /\ Cardinality(a) <= N
    BY <1>1, <1>10, GroupTreeAssumption, FS_Subset
  <2>2. Cardinality(a) \in Nat
    BY <2>1, FS_CardinalityType
  <2> QED
    BY <1>10, <2>1, <2>2
<1>12. \A x \in a \cap Groups : groupRow[x].parent \in a \cup {NoGroup}
  BY <1>11 DEF LevelUp
<1>13. ASSUME NEW t, g \in t, \A x \in t \cap Groups : groupRow[x].parent \in t \cup {NoGroup}
       PROVE  a \subseteq t
  <2>1. PICK T : T = {n \in 0..N : u[n] \subseteq t}
    OBVIOUS
  <2>2. 0 \in T
    BY <1>3, <1>13, <2>1
  <2>3. ASSUME NEW n \in 0..N, n \in T, n < N PROVE n + 1 \in T
    <3>1. u[n + 1] = LevelUp(u[n]) /\ u[n] \subseteq t /\ n + 1 \in 0..N
      BY <1>3, <2>1, <2>3
    <3>2. LevelUp(u[n]) \subseteq t
      BY <1>13, <3>1 DEF LevelUp
    <3> QED
      BY <2>1, <3>1, <3>2
  <2>4. N \in T
    BY <2>2, <2>3, LevelInduction
  <2> QED
    BY <1>2, <1>9, <2>1, <2>4
<1> QED
  BY <1>9, <1>10, <1>12, <1>13

\* Of some groups one has the fewest groups above it.
LEMMA FewestAbove ==
  ASSUME GroupsTypeOK, NEW A \in SUBSET GroupIds, A # {}
  PROVE  \E x \in A : \A y \in A : Cardinality(Above(x)) <= Cardinality(Above(y))
<1>1. PICK C : C = {Cardinality(Above(x)) : x \in A}
  OBVIOUS
<1>2. C \in SUBSET Nat /\ C # {}
  <2>1. \A x \in A : IsFiniteSet(Above(x))
    BY AboveIs, GroupTreeAssumption, FS_Subset
  <2> QED
    BY <1>1, <2>1, FS_CardinalityType
<1>3. PICK i \in C : \A j \in C : i <= j
  BY <1>2, LeastNumber
<1> QED
  BY <1>1, <1>3

\* From a group of an organization that has gone the way up comes to one that came
\* too late, or it comes round.
LEMMA OrgGroupsGo ==
  ASSUME OrgInv
  PROVE  OrganizationGroupsGo
<1> SUFFICES ASSUME NEW g \in Groups, groupRow[g].org \notin orgRows \cup {NoGroup},
                    ~ \E a \in Above(g) : a \in late \/ Looped(a)
             PROVE  FALSE
  BY DEF OrganizationGroupsGo
<1>1. GroupsTypeOK /\ DeleteLeavesNoOrphans /\ OrgFollows /\ RootsGone
  BY DEF OrgInv, GroupsInv
<1>2. PICK o \in OrgIds \ orgRows : o = groupRow[g].org
  BY <1>1, RowTypes
<1>3. PICK A : A = Above(g)
  OBVIOUS
<1>4. g \in GroupIds /\ Groups \subseteq GroupIds /\ NoGroup \notin OrgIds
  BY GroupTreeAssumption DEF Groups
<1>5. /\ g \in A /\ A \subseteq GroupIds
      /\ \A x \in A \cap Groups : groupRow[x].parent \in A \cup {NoGroup}
      /\ \A t : g \in t /\ (\A x \in t \cap Groups : groupRow[x].parent \in t \cup {NoGroup}) => A \subseteq t
  BY <1>1, <1>3, <1>4, AboveIs
<1>6. \A x \in A : x \notin late /\ ~Looped(x)
  BY <1>3
<1>7. ASSUME NEW x \in A \cap Groups, groupRow[x].org = o
      PROVE  groupRow[x].parent \in A \cap Groups /\ groupRow[groupRow[x].parent].org = o
  <2>1. x \notin late
    BY <1>6
  <2>2. groupRow[x].parent # NoGroup
    BY <1>1, <1>7, <2>1, RootsAre DEF RootsGone
  <2>3. groupRow[x].parent \in Groups
    BY <1>1, <2>1, <2>2 DEF DeleteLeavesNoOrphans
  <2> QED
    BY <1>1, <1>4, <1>5, <1>7, <2>1, <2>2, <2>3 DEF OrgFollows
<1>8. \A x \in A : x \in Groups /\ groupRow[x].org = o
  <2>1. PICK t : t = {x \in A \cap Groups : groupRow[x].org = o}
    OBVIOUS
  <2>2. g \in t
    BY <1>2, <1>5, <2>1
  <2>3. \A x \in t \cap Groups : groupRow[x].parent \in t \cup {NoGroup}
    BY <1>7, <2>1
  <2> QED
    BY <1>5, <2>1, <2>2, <2>3
<1>9. PICK x \in A : \A y \in A : Cardinality(Above(x)) <= Cardinality(Above(y))
  BY <1>1, <1>5, FewestAbove
<1>10. PICK p \in A : p = groupRow[x].parent /\ p \in Groups /\ x \in Groups
  BY <1>7, <1>8, <1>9
<1>11. p \in Above(x) /\ x \in Above(p)
  <2>1. /\ x \in Above(x) /\ Above(x) \subseteq GroupIds
        /\ \A y \in Above(x) \cap Groups : groupRow[y].parent \in Above(x) \cup {NoGroup}
    BY <1>1, <1>5, AboveIs
  <2>2. p \in Above(x)
    BY <1>4, <1>5, <1>10, <2>1, GroupTreeAssumption
  <2>3. Above(p) \subseteq Above(x)
    BY <1>1, <1>5, <2>1, <2>2, AboveIs
  <2>4. IsFiniteSet(Above(x))
    BY <2>1, GroupTreeAssumption, FS_Subset
  <2>5. IsFiniteSet(Above(p)) /\ Cardinality(Above(p)) <= Cardinality(Above(x))
        /\ (Cardinality(Above(x)) = Cardinality(Above(p)) => Above(x) = Above(p))
    BY <2>3, <2>4, FS_Subset
  <2>6. Cardinality(Above(x)) <= Cardinality(Above(p))
    BY <1>9, <1>10
  <2>7. Cardinality(Above(x)) \in Nat /\ Cardinality(Above(p)) \in Nat
    BY <2>4, <2>5, FS_CardinalityType
  <2> QED
    BY <2>1, <2>2, <2>5, <2>6, <2>7
<1>12. Looped(x)
  BY <1>10, <1>11 DEF Looped
<1> QED
  BY <1>6, <1>9, <1>12

\* deleteOrganization with its root, and the creations, moves and deletions beside it:
\* in a forest of any shape a group of an organization that has gone lies below one
\* that came too late, or in a loop that moves have made.
THEOREM OrgGroupsFollow == GroupsSpec => []OrganizationGroupsGo
BY OrgStart, OrgStep, OrgGroupsGo, PTL DEF GroupsSpec
=============================================================================
