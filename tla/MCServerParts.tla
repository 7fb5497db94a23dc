---------------------------- MODULE MCServerParts ----------------------------
\* The parts of the server, on a small instance of each.
EXTENDS ServerParts, TLC

CONSTANTS
  fb, fs, fu, f1, f2, e1, e2, e3, e4, c0, c1,  \* flows, executions, configurations
  g1, g2, g3, g4, g5, o1, o2,                  \* groups and organizations
  x1, x2                                       \* ids no part has drawn: executions, groups, containers

\* A built-in flow with a sub-flow, whose row is configured, and a flow of two rows.
MCSeedExecs ==
  (e1 :> [parent |-> fb, sub |-> fs, config |-> Nil, priority |-> 1])
    @@ (e2 :> [parent |-> fs, sub |-> Nil, config |-> c0, priority |-> 1])
    @@ (e3 :> [parent |-> fu, sub |-> Nil, config |-> Nil, priority |-> 0])
    @@ (e4 :> [parent |-> fu, sub |-> Nil, config |-> Nil, priority |-> 1])
    @@ (x1 :> Nil) @@ (x2 :> Nil)

\* A group of the realm with a child; an organization's root with a child and a grandchild.
MCSeedGroups ==
  (g1 :> [parent |-> NoGroup, org |-> NoGroup])
    @@ (g2 :> [parent |-> g1, org |-> NoGroup])
    @@ (g3 :> [parent |-> NoGroup, org |-> o1])
    @@ (g4 :> [parent |-> g3, org |-> o1])
    @@ (g5 :> [parent |-> g4, org |-> o1])
    @@ (x1 :> NoGroup) @@ (x2 :> NoGroup)

\* Requests are interchangeable, and so are ids that are not drawn yet.
MCSymmetry == Permutations(RealmRequests) \cup Permutations({x1, x2})
=============================================================================
