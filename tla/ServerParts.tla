---------------------------- MODULE ServerParts ----------------------------
(***************************************************************************)
(* Parts of the server beside the browser login and the sessions: roles,   *)
(* the seeding of master, realms and their containers, authentication      *)
(* flows, groups, user rows, registered clients, DPoP proofs.              *)
(*                                                                         *)
(* As modelled the parts write disjoint tables and wait for nothing of     *)
(* each other's, and every property below speaks of one part, so a         *)
(* behaviour of all of them violates one exactly when the steps of its own *)
(* part, the others standing still, do.  One part moves; the others rest   *)
(* in one of their initial states.                                         *)
(***************************************************************************)
EXTENDS CompositeRoles, RealmSeeding, RealmContainers, AuthFlows, GroupTree, UserRows,
        ClientRegistration, ProofStore

VARIABLE part   \* the part that moves

PartNames == {"roles", "seeding", "containers", "flows", "groups", "users", "registration", "proofs"}

ServerInit ==
  /\ RolesInit /\ SeedingInit /\ ContainersInit /\ FlowsInit /\ GroupsInit
  /\ UsersInit /\ RegistrationInit /\ ProofsInit
  /\ part \in PartNames
  /\ part # "users" => known = {}
  /\ part # "proofs" => madeAt = [p \in Proofs |-> 0]

ServerNext ==
  /\ UNCHANGED part
  /\ \/ /\ part = "roles" /\ RolesNext
        /\ UNCHANGED <<seedingVars, containersVars, flowsVars, groupsVars,
                       userVars, regVars, proofVars>>
     \/ /\ part = "seeding" /\ SeedingNext
        /\ UNCHANGED <<rolesVars, containersVars, flowsVars, groupsVars,
                       userVars, regVars, proofVars>>
     \/ /\ part = "containers" /\ ContainersNext
        /\ UNCHANGED <<rolesVars, seedingVars, flowsVars, groupsVars,
                       userVars, regVars, proofVars>>
     \/ /\ part = "flows" /\ FlowsNext
        /\ UNCHANGED <<rolesVars, seedingVars, containersVars, groupsVars,
                       userVars, regVars, proofVars>>
     \/ /\ part = "groups" /\ GroupsNext
        /\ UNCHANGED <<rolesVars, seedingVars, containersVars, flowsVars,
                       userVars, regVars, proofVars>>
     \/ /\ part = "users" /\ UsersNext
        /\ UNCHANGED <<rolesVars, seedingVars, containersVars, flowsVars,
                       groupsVars, regVars, proofVars>>
     \/ /\ part = "registration" /\ RegistrationNext
        /\ UNCHANGED <<rolesVars, seedingVars, containersVars, flowsVars,
                       groupsVars, userVars, proofVars>>
     \/ /\ part = "proofs" /\ ProofsNext
        /\ UNCHANGED <<rolesVars, seedingVars, containersVars, flowsVars,
                       groupsVars, userVars, regVars>>

serverVars == <<rolesVars, seedingVars, containersVars, flowsVars, groupsVars,
                userVars, regVars, proofVars, part>>

ServerSpec == ServerInit /\ [][ServerNext]_serverVars
=============================================================================
