-------------------------- MODULE RealmContainers --------------------------
(***************************************************************************)
(* Creating, renaming and deleting a realm.  The realm's own rows go with  *)
(* the realm; what administers it lives in master: the client              *)
(* "{realm}-realm", its roles, and their places in master's admin role.    *)
(* keycloak_role has no foreign key to client, so the three are made and   *)
(* unmade by separate writes, in requests that may overlap or end early.   *)
(***************************************************************************)
EXTENDS Naturals, FiniteSets

CONSTANTS
  RealmNames,     \* names of realms other than master
  RealmIds,       \* realm ids
  ContainerIds,   \* ids of clients in master
  AdminRoles,     \* adminClientRoles: the roles of a container
  RealmRequests,  \* requests, each served once
  Nobody          \* absent value

ASSUME RealmContainersAssumption ==
  /\ Nobody \notin RealmNames \cup RealmIds \cup ContainerIds
  /\ ContainerIds \cap (RealmNames \cup RealmIds) = {}

VARIABLES
  realmRow,     \* realm: the id under each name, which is unique
  containerRow, \* client: the container under each realm's name, unique too
  adminRoles,   \* keycloak_role of the containers
  granted,      \* composite_role: those in master's admin
  undrawn,      \* realm and container ids not drawn yet
  realmReq,     \* the requests under way
  blurred       \* names and containers that overlapping or cut-off requests met (history)

containersVars == <<realmRow, containerRow, adminRoles, granted, undrawn, realmReq, blurred>>

RealmSteps == {"idle", "row", "seed", "client", "lookup", "roles", "compose", "mappings",
               "find", "list", "drop", "dropClient", "dropRow", "write", "rename", "moved", "move",
               "over"}

RealmRequest ==
  [step : RealmSteps, name : RealmNames \cup {Nobody}, to : RealmNames \cup {Nobody},
   id : RealmIds \cup {Nobody}, container : ContainerIds \cup {Nobody}, todo : SUBSET AdminRoles]
IdleRealmRequest == [step |-> "idle", name |-> Nobody, to |-> Nobody, id |-> Nobody,
                     container |-> Nobody, todo |-> {}]
OverRealmRequest == [IdleRealmRequest EXCEPT !.step = "over"]

ContainersTypeOK ==
  /\ realmRow \in [RealmNames -> RealmIds \cup {Nobody}]
  /\ containerRow \in [RealmNames -> ContainerIds \cup {Nobody}]
  /\ adminRoles \in SUBSET (ContainerIds \X AdminRoles)
  /\ granted \in SUBSET adminRoles
  /\ undrawn \in SUBSET (RealmIds \cup ContainerIds)
  /\ realmReq \in [RealmRequests -> RealmRequest]
  /\ blurred \in SUBSET (RealmNames \cup ContainerIds)
  /\ \A n, m \in RealmNames : n # m => /\ realmRow[n] # realmRow[m] \/ realmRow[n] = Nobody
                                       /\ containerRow[n] # containerRow[m] \/ containerRow[n] = Nobody

ContainersInit ==
  /\ realmRow = [n \in RealmNames |-> Nobody]
  /\ containerRow = [n \in RealmNames |-> Nobody]
  /\ adminRoles = {}
  /\ granted = {}
  /\ undrawn = RealmIds \cup ContainerIds
  /\ realmReq = [q \in RealmRequests |-> IdleRealmRequest]
  /\ blurred = {}

-----------------------------------------------------------------------------
(* Requests and the history *)

NamesOf(q) == {realmReq[q].name, realmReq[q].to} \ {Nobody}
Active(n) == \E q \in RealmRequests : n \in NamesOf(q)

\* All that requests on these names may have left half done.
Blur(names) ==
  names \cup {containerRow[n] : n \in {m \in names : containerRow[m] # Nobody}}
        \cup {realmReq[q].container :
                q \in {o \in RealmRequests : NamesOf(o) \cap names # {} /\ realmReq[o].container # Nobody}}

\* Names of requests that share one with these.
Reach(names) == names \cup UNION {NamesOf(q) : q \in {o \in RealmRequests : NamesOf(o) \cap names # {}}}

\* A rename carries what its old name left to the new one.
Arrives(q, names, request) ==
  /\ realmReq[q].step = "idle"
  /\ realmReq' = [realmReq EXCEPT ![q] = request]
  /\ blurred' = IF \E n \in names : Active(n) \/ n \in blurred
                THEN blurred \cup Blur(Reach(names)) ELSE blurred

To(q, step) == realmReq' = [realmReq EXCEPT ![q].step = step]

\* The request ends with an error half way, or is cut off.
Aborted(q) ==
  /\ realmReq' = [realmReq EXCEPT ![q] = OverRealmRequest]
  /\ blurred' = blurred \cup Blur(Reach(NamesOf(q)))

Answered(q) ==
  /\ realmReq' = [realmReq EXCEPT ![q] = OverRealmRequest]
  /\ UNCHANGED blurred

RealmLives(id) == \E n \in RealmNames : realmRow[n] = id

-----------------------------------------------------------------------------
(* bootstrap.CreateRealm *)

PostRealm(q) ==
  /\ \E n \in RealmNames : Arrives(q, {n}, [IdleRealmRequest EXCEPT !.step = "row", !.name = n])
  /\ UNCHANGED <<realmRow, containerRow, adminRoles, granted, undrawn>>

\* ensureRealm: a row that is there already is the one that is built on.
EnsureRealm(q) ==
  LET n == realmReq[q].name IN
  /\ realmReq[q].step = "row"
  /\ \/ /\ realmRow[n] = Nobody
        /\ \E id \in undrawn \cap RealmIds :
             /\ realmRow' = [realmRow EXCEPT ![n] = id]
             /\ undrawn' = undrawn \ {id}
             /\ realmReq' = [realmReq EXCEPT ![q].step = "seed", ![q].id = id]
     \/ /\ realmRow[n] # Nobody
        /\ realmReq' = [realmReq EXCEPT ![q].step = "seed", ![q].id = realmRow[n]]
        /\ UNCHANGED <<realmRow, undrawn>>
  /\ UNCHANGED <<containerRow, adminRoles, granted, blurred>>

\* The rows inside the realm, before and after the container: each has a foreign
\* key to the realm.
SeedRealm(q) ==
  /\ realmReq[q].step \in {"seed", "mappings"}
  /\ IF ~RealmLives(realmReq[q].id) THEN Aborted(q)
     ELSE IF realmReq[q].step = "seed" THEN To(q, "client") /\ UNCHANGED blurred
     ELSE Answered(q)
  /\ UNCHANGED <<realmRow, containerRow, adminRoles, granted, undrawn>>

\* createClient in master; a conflict is ignored.
EnsureContainer(q) ==
  LET n == realmReq[q].name IN
  /\ realmReq[q].step = "client"
  /\ \/ /\ containerRow[n] = Nobody
        /\ \E c \in undrawn \cap ContainerIds :
             /\ containerRow' = [containerRow EXCEPT ![n] = c]
             /\ undrawn' = undrawn \ {c}
             /\ blurred' = IF n \in blurred THEN blurred \cup {c} ELSE blurred
     \/ /\ containerRow[n] # Nobody
        /\ UNCHANGED <<containerRow, undrawn, blurred>>
  /\ To(q, "lookup")
  /\ UNCHANGED <<realmRow, adminRoles, granted>>

LookUpContainer(q) ==
  LET c == containerRow[realmReq[q].name] IN
  /\ realmReq[q].step = "lookup"
  /\ IF c = Nobody THEN Aborted(q)
     ELSE /\ realmReq' = [realmReq EXCEPT ![q].step = "roles", ![q].container = c,
                                          ![q].todo = AdminRoles]
          /\ UNCHANGED blurred
  /\ UNCHANGED <<realmRow, containerRow, adminRoles, granted, undrawn>>

\* The container's roles one by one; a conflict is ignored, and nothing ties the
\* role to the client.
EnsureContainerRoles(q) ==
  /\ realmReq[q].step = "roles"
  /\ \/ \E k \in realmReq[q].todo :
          /\ adminRoles' = adminRoles \cup {<<realmReq[q].container, k>>}
          /\ realmReq' = [realmReq EXCEPT ![q].todo = @ \ {k}]
     \/ /\ realmReq[q].todo = {}
        /\ realmReq' = [realmReq EXCEPT ![q].step = "compose", ![q].todo = AdminRoles]
        /\ UNCHANGED adminRoles
  /\ UNCHANGED <<realmRow, containerRow, granted, undrawn, blurred>>

\* composeRoles looks each role up before it adds it to admin.
ComposeAdmin(q) ==
  /\ realmReq[q].step = "compose"
  /\ \/ \E k \in realmReq[q].todo :
          LET r == <<realmReq[q].container, k>> IN
          IF r \in adminRoles
          THEN /\ granted' = granted \cup {r}
               /\ realmReq' = [realmReq EXCEPT ![q].todo = @ \ {k}]
               /\ UNCHANGED blurred
          ELSE Aborted(q) /\ UNCHANGED granted
     \/ /\ realmReq[q].todo = {}
        /\ To(q, "mappings")
        /\ UNCHANGED <<granted, blurred>>
  /\ UNCHANGED <<realmRow, containerRow, adminRoles, undrawn>>

-----------------------------------------------------------------------------
(* bootstrap.DeleteRealm *)

DeleteRealm(q) ==
  /\ \E n \in RealmNames :
       /\ realmRow[n] # Nobody
       /\ Arrives(q, {n}, [IdleRealmRequest EXCEPT !.step = "find", !.name = n, !.id = realmRow[n]])
  /\ UNCHANGED <<realmRow, containerRow, adminRoles, granted, undrawn>>

\* A realm without a container still deletes.
FindContainer(q) ==
  LET c == containerRow[realmReq[q].name] IN
  /\ realmReq[q].step = "find"
  /\ realmReq' = [realmReq EXCEPT ![q].container = c,
                                  ![q].step = IF c = Nobody THEN "dropRow" ELSE "list"]
  /\ UNCHANGED <<realmRow, containerRow, adminRoles, granted, undrawn, blurred>>

ListContainerRoles(q) ==
  /\ realmReq[q].step = "list"
  /\ realmReq' = [realmReq EXCEPT ![q].step = "drop",
                                  ![q].todo = {k \in AdminRoles : <<realmReq[q].container, k>> \in adminRoles}]
  /\ UNCHANGED <<realmRow, containerRow, adminRoles, granted, undrawn, blurred>>

\* Mutant: the roles are left to a cascade that the schema does not have.
DropNoRoles(q) ==
  /\ realmReq[q].step = "drop"
  /\ To(q, "dropClient")
  /\ UNCHANGED <<realmRow, containerRow, adminRoles, granted, undrawn, blurred>>

\* roleRepo.Delete takes the row out of admin as well; a role that is gone is as
\* good as deleted.
DropContainerRoles(q) ==
  /\ realmReq[q].step = "drop"
  /\ \/ \E k \in realmReq[q].todo :
          LET r == <<realmReq[q].container, k>> IN
          /\ adminRoles' = adminRoles \ {r}
          /\ granted' = granted \ {r}
          /\ realmReq' = [realmReq EXCEPT ![q].todo = @ \ {k}]
     \/ /\ realmReq[q].todo = {}
        /\ To(q, "dropClient")
        /\ UNCHANGED <<adminRoles, granted>>
  /\ UNCHANGED <<realmRow, containerRow, undrawn, blurred>>

DropContainer(q) ==
  /\ realmReq[q].step = "dropClient"
  /\ containerRow' = [n \in RealmNames |-> IF containerRow[n] = realmReq[q].container
                                           THEN Nobody ELSE containerRow[n]]
  /\ To(q, "dropRow")
  /\ UNCHANGED <<realmRow, adminRoles, granted, undrawn, blurred>>

\* A realm that is gone is a 404.
DropRealm(q) ==
  /\ realmReq[q].step = "dropRow"
  /\ realmRow' = [n \in RealmNames |-> IF realmRow[n] = realmReq[q].id THEN Nobody ELSE realmRow[n]]
  /\ Answered(q)
  /\ UNCHANGED <<containerRow, adminRoles, granted, undrawn>>

-----------------------------------------------------------------------------
(* updateRealm: the row goes back whole, under the name it was read with or a new one *)

\* The row of a realm under a name, and under no other.
Under(id, m) == [n \in RealmNames |-> IF n = m THEN id
                                      ELSE IF realmRow[n] = id THEN Nobody ELSE realmRow[n]]

PutRealm(q) ==
  /\ \E n \in RealmNames :
       /\ realmRow[n] # Nobody
       /\ Arrives(q, {n}, [IdleRealmRequest EXCEPT !.step = "write", !.name = n, !.id = realmRow[n]])
  /\ UNCHANGED <<realmRow, containerRow, adminRoles, granted, undrawn>>

\* Without a new name the update still writes the old one back, whatever a rename
\* has made of it since.
WriteRealm(q) ==
  LET id == realmReq[q].id
      n == realmReq[q].name IN
  /\ realmReq[q].step = "write"
  /\ realmRow' = IF RealmLives(id) /\ realmRow[n] \in {Nobody, id} THEN Under(id, n) ELSE realmRow
  /\ Answered(q)
  /\ UNCHANGED <<containerRow, adminRoles, granted, undrawn>>

RenameRealm(q) ==
  /\ \E n, m \in RealmNames :
       /\ n # m /\ realmRow[n] # Nobody
       /\ Arrives(q, {n, m}, [IdleRealmRequest EXCEPT !.step = "rename", !.name = n, !.to = m,
                                                      !.id = realmRow[n]])
  /\ UNCHANGED <<realmRow, containerRow, adminRoles, granted, undrawn>>

\* Mutant: two realms may have one name.
RenameRowOver(q) ==
  /\ realmReq[q].step = "rename"
  /\ realmRow' = [realmRow EXCEPT ![realmReq[q].to] = realmReq[q].id]
  /\ To(q, "moved")
  /\ UNCHANGED <<containerRow, adminRoles, granted, undrawn, blurred>>

\* Realms().Update: a name that is taken is a conflict, a row that is gone an error.
RenameRow(q) ==
  LET id == realmReq[q].id
      m == realmReq[q].to IN
  /\ realmReq[q].step = "rename"
  /\ IF RealmLives(id) /\ realmRow[m] \in {Nobody, id}
     THEN /\ realmRow' = Under(id, m)
          /\ To(q, "moved")
     ELSE realmReq' = [realmReq EXCEPT ![q] = OverRealmRequest] /\ UNCHANGED realmRow
  /\ UNCHANGED <<containerRow, adminRoles, granted, undrawn, blurred>>

\* renameRealmClients looks the container up under the old name.
FindMovedContainer(q) ==
  LET c == containerRow[realmReq[q].name] IN
  /\ realmReq[q].step = "moved"
  /\ IF c = Nobody THEN Answered(q)
     ELSE /\ realmReq' = [realmReq EXCEPT ![q].step = "move", ![q].container = c]
          /\ UNCHANGED blurred
  /\ UNCHANGED <<realmRow, containerRow, adminRoles, granted, undrawn>>

MoveContainer(q) ==
  LET c == realmReq[q].container
      m == realmReq[q].to IN
  /\ realmReq[q].step = "move"
  /\ IF containerRow[m] \in {Nobody, c} /\ \E n \in RealmNames : containerRow[n] = c
     THEN /\ containerRow' = [n \in RealmNames |-> IF n = m THEN c
                                                   ELSE IF containerRow[n] = c THEN Nobody
                                                   ELSE containerRow[n]]
          /\ Answered(q)
     ELSE Aborted(q) /\ UNCHANGED containerRow
  /\ UNCHANGED <<realmRow, adminRoles, granted, undrawn>>

CutRealmRequest(q) ==
  /\ realmReq[q].step \notin {"idle", "over"}
  /\ Aborted(q)
  /\ UNCHANGED <<realmRow, containerRow, adminRoles, granted, undrawn>>

-----------------------------------------------------------------------------
ContainersNext ==
  \E q \in RealmRequests :
    \/ PostRealm(q) \/ EnsureRealm(q) \/ SeedRealm(q) \/ EnsureContainer(q) \/ LookUpContainer(q)
    \/ EnsureContainerRoles(q) \/ ComposeAdmin(q)
    \/ DeleteRealm(q) \/ FindContainer(q) \/ ListContainerRoles(q) \/ DropContainerRoles(q)
    \/ DropContainer(q) \/ DropRealm(q)
    \/ PutRealm(q) \/ WriteRealm(q)
    \/ RenameRealm(q) \/ RenameRow(q) \/ FindMovedContainer(q) \/ MoveContainer(q)
    \/ CutRealmRequest(q)

ContainersSpec == ContainersInit /\ [][ContainersNext]_containersVars

-----------------------------------------------------------------------------
(* Properties *)

\* CreateRealm, renameRealmClients and DeleteRealm together: once no request is
\* at work on a name, its realm has a container with every role granted to
\* admin, and no container, role or grant in master is left without its realm -
\* unless requests on that name overlapped or one was cut off.
GrantsFollowRealms ==
  /\ \A n \in RealmNames \ blurred :
       LET c == containerRow[n] IN
       ~Active(n) => /\ realmRow[n] = Nobody <=> c = Nobody
                     /\ c # Nobody => {c} \X AdminRoles \subseteq granted
  /\ \A r \in adminRoles : r[1] \in blurred \/ \E n \in RealmNames : containerRow[n] = r[1]
=============================================================================
