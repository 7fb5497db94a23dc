---------------------------- MODULE RealmSeeding ----------------------------
(***************************************************************************)
(* bootstrap.EnsureMaster: every process that starts seeds the master      *)
(* realm, row by row and without a transaction, creating what is missing.  *)
(* Processes die anywhere, start again, and may start together; an         *)
(* administrator removes rows while one is serving.                        *)
(*                                                                         *)
(* A family is a table or a part of one; its seeds are the rows a pristine *)
(* realm has in it.  Rows that refer to one another carry one number: the  *)
(* role of client s is client role s, the mapping over them mapping s.     *)
(***************************************************************************)
EXTENDS Naturals, FiniteSets, Sequences

CONSTANTS
  Starts,       \* process starts, each one run of EnsureMaster
  SeedCount,    \* the seeds of a family are 1..SeedCount, written in this order
  MaxRemovals   \* bound: rows an administrator removes

ASSUME RealmSeedingAssumption == SeedCount \in Nat \ {0} /\ MaxRemovals \in Nat

Seeds == 1..SeedCount

VARIABLES
  seeded,    \* how many rows each seed of each family has
  start,     \* the runs
  removed,   \* seeds an administrator deleted while a run was under way or serving (history)
  together   \* two runs have been under way at once (history)

seedingVars == <<seeded, start, removed, together>>

\* The order of EnsureMaster.  The flows' own seeding writes configurations,
\* flows and executions; a scope comes with its place among the realm's defaults;
\* "mappings" are the composites and the scope mappings of the roles; "admin" is
\* the administrator with roles and credential.
Plan == <<"scopes", "actions", "components", "configs", "flows", "executions",
          "clients", "roles", "clientRoles", "mappings", "admin">>

\* Beside these: the scopes attached to a client, which its Create writes after the
\* client's row, and the roles of deleted clients, which nothing refers to any more.
Families == {Plan[i] : i \in DOMAIN Plan} \cup {"links", "orphans"}

\* Families whose tables refuse a second row: the conflict is ignored.
UniqueFamilies == {"scopes", "clients", "links", "roles", "clientRoles", "mappings", "admin"}

\* Families that are seeded only into an empty table.
GuardedFamilies == {"actions", "flows", "executions"}

\* Built-in flows and their executions cannot be deleted.
Removable == Families \ {"flows", "executions", "orphans"}

\* What a row is looked up by or points to; with that gone the run fails.
RefersTo(f) ==
  CASE f = "clientRoles" -> {"clients"}
    [] f = "mappings" -> {"scopes", "clients", "roles", "clientRoles"}
    [] f = "admin" -> {"roles"}
    [] OTHER -> {}

\* The rows a deletion takes away, by the foreign keys: keycloak_role has none to
\* the client, so a deleted client's roles are not deleted but left behind.
Gone(f, s) ==
  CASE f = "scopes" -> {<<f, s>>, <<"mappings", s>>} \cup ({"links"} \X Seeds)
    [] f = "clients" -> {f, "links", "clientRoles", "mappings"} \X {s}
    [] f = "roles" -> {f, "mappings", "admin"} \X {s}
    [] f = "clientRoles" -> {f, "mappings"} \X {s}
    [] OTHER -> {<<f, s>>}

StartStates == {"new", "running", "dead", "serving"}

\* A run: the family it is at and its seeds yet to be written, the client whose row
\* it has inserted and whose scopes it is attaching (0 for none), and those scopes.
StartRecord == [state : StartStates, at : 0..Len(Plan) + 1, todo : SUBSET Seeds,
                half : 0..SeedCount, inherits : SUBSET Seeds]

SeedingTypeOK ==
  /\ seeded \in [Families -> [Seeds -> Nat]]
  /\ \A f \in UniqueFamilies, s \in Seeds : seeded[f][s] <= 1
  /\ start \in [Starts -> StartRecord]
  /\ removed \in [Starts -> SUBSET (Families \X Seeds)]
  /\ together \in BOOLEAN

NewStart == [state |-> "new", at |-> 0, todo |-> {}, half |-> 0, inherits |-> {}]

SeedingInit ==
  /\ seeded = [f \in Families |-> [s \in Seeds |-> 0]]
  /\ start = [p \in Starts |-> NewStart]
  /\ removed = [p \in Starts |-> {}]
  /\ together = FALSE

Present(f) == {s \in Seeds : seeded[f][s] > 0}
Running(p) == start[p].state = "running"

-----------------------------------------------------------------------------
\* ensureRealm and the first family's list of seeds.
Begin(p) ==
  /\ start[p].state = "new"
  /\ start' = [start EXCEPT ![p] = [@ EXCEPT !.state = "running", !.at = 1, !.todo = Seeds]]
  /\ together' = (together \/ \E o \in Starts : Running(o))
  /\ UNCHANGED <<seeded, removed>>

\* Mutant: the components are seeded like the required actions, all or none.
ToWriteAllOrNone(f) == IF f \in {"actions", "components"} /\ Present(f) # {} THEN {} ELSE Seeds

\* Mutant: the components are seeded without a look at what is there.
ToWriteUnseen(f) == IF f = "actions" /\ Present(f) # {} THEN {} ELSE Seeds

\* What a family's ensure function sets out to write: required actions only when
\* there are none, components that are not listed, everything else.
ToWrite(f) ==
  CASE f = "actions" -> IF Present(f) # {} THEN {} ELSE Seeds
    [] f = "components" -> Seeds \ Present(f)
    [] OTHER -> Seeds

\* ensureAuthenticationFlows returns at once where there is a flow.
SkipsFlows(i) == Plan[i] = "configs" /\ Present("flows") # {}

\* The next family, with what is read on entering it.
NextFamily(p) ==
  LET i == start[p].at + 1 IN
  /\ Running(p) /\ start[p].todo = {} /\ start[p].half = 0 /\ i <= Len(Plan)
  /\ start' = [start EXCEPT ![p] =
                 IF SkipsFlows(i) THEN [@ EXCEPT !.at = i + 2]
                 ELSE [@ EXCEPT !.at = i, !.todo = ToWrite(Plan[i])]]
  /\ UNCHANGED <<seeded, removed, together>>

\* Run p is done with seed s; a client it has created is without its scopes yet.
Written(p, f, s) ==
  IF f = "clients" /\ seeded[f][s] = 0
    THEN [start[p] EXCEPT !.todo = @ \ {s}, !.half = s, !.inherits = Present("scopes")]
    ELSE [start[p] EXCEPT !.todo = @ \ {s}]

\* Mutant: no table refuses a second row.
WriteSeedAgain(p) ==
  LET f == Plan[start[p].at] IN
  /\ Running(p) /\ start[p].half = 0
  /\ \E s \in start[p].todo :
       /\ \A t \in start[p].todo : s <= t
       /\ \A g \in RefersTo(f) : seeded[g][s] > 0
       /\ seeded' = [seeded EXCEPT ![f][s] = @ + 1]
       /\ start' = [start EXCEPT ![p] = Written(p, f, s)]
  /\ UNCHANGED <<removed, together>>

\* One INSERT, or one Create where a transaction holds it together.  A client comes
\* with the names of the scopes the realm has then.
WriteSeed(p) ==
  LET f == Plan[start[p].at] IN
  /\ Running(p) /\ start[p].half = 0
  /\ \E s \in start[p].todo :
       /\ \A t \in start[p].todo : s <= t
       /\ \A g \in RefersTo(f) : seeded[g][s] > 0
       /\ seeded' = [seeded EXCEPT ![f][s] = IF f \in UniqueFamilies THEN 1 ELSE @ + 1]
       /\ start' = [start EXCEPT ![p] = Written(p, f, s)]
  /\ UNCHANGED <<removed, together>>

\* attachClientScopes, after the client's row: a scope the realm has no more is
\* skipped.  A client whose row another run inserted is never attached to.
AttachScopes(p) ==
  LET s == start[p].half IN
  /\ Running(p) /\ s # 0
  /\ seeded' = [seeded EXCEPT !["links"][s] =
                  IF start[p].inherits \cap Present("scopes") = Seeds THEN 1 ELSE @]
  /\ start' = [start EXCEPT ![p].half = 0, ![p].inherits = {}]
  /\ UNCHANGED <<removed, together>>

Serve(p) ==
  /\ Running(p) /\ start[p].todo = {} /\ start[p].half = 0 /\ start[p].at = Len(Plan)
  /\ start' = [start EXCEPT ![p].state = "serving", ![p].at = Len(Plan) + 1]
  /\ UNCHANGED <<seeded, removed, together>>

\* The process dies, or a lookup of something just removed fails and serve returns.
Die(p) ==
  /\ Running(p)
  /\ start' = [start EXCEPT ![p].state = "dead"]
  /\ UNCHANGED <<seeded, removed, together>>

Removals == UNION {removed[p] : p \in Starts}

\* What has gone with the deletions made while p was under way or serving.
Lost(p) == UNION {Gone(e[1], e[2]) : e \in removed[p]}

\* The rows once <<f, s>> is deleted.
RowsWithout(f, s) ==
  [g \in Families |-> [t \in Seeds |->
     IF g = f /\ t = s THEN seeded[g][t] - 1
     ELSE IF <<g, t>> \in Gone(f, s) THEN 0
     ELSE IF g = "orphans" /\ f = "clients" /\ t = s THEN seeded[g][t] + seeded["clientRoles"][t]
     ELSE seeded[g][t]]]

\* A run that is attaching scopes to the client deleted has none left to attach to.
RunsWithout(f, s) ==
  [p \in Starts |-> IF f = "clients" /\ start[p].half = s
                    THEN [start[p] EXCEPT !.half = 0, !.inherits = {}] ELSE start[p]]

\* One DELETE of the administration API of a process that serves.
RemoveSeed ==
  /\ \E p \in Starts : start[p].state = "serving"
  /\ \E f \in Removable, s \in Seeds :
       /\ seeded[f][s] > 0
       /\ Cardinality(Removals \cup {<<f, s>>}) <= MaxRemovals
       /\ seeded' = RowsWithout(f, s)
       /\ removed' = [p \in Starts |-> IF start[p].state \in {"running", "serving"}
                                       THEN removed[p] \cup {<<f, s>>} ELSE removed[p]]
       /\ start' = RunsWithout(f, s)
  /\ UNCHANGED together

SeedingNext ==
  \/ \E p \in Starts : \/ Begin(p) \/ NextFamily(p) \/ WriteSeed(p) \/ AttachScopes(p)
                       \/ Serve(p) \/ Die(p)
  \/ RemoveSeed

SeedingSpec == SeedingInit /\ [][SeedingNext]_seedingVars
-----------------------------------------------------------------------------
(* Properties *)

\* A run is inside the family's seeding, or died there.  Executions follow their
\* flows in one function.
LeftHalfDone(f) ==
  \E p \in Starts :
    /\ start[p].state \in {"running", "dead"}
    /\ \/ Plan[start[p].at] = f /\ start[p].todo # {}
       \/ Plan[start[p].at] = "flows" /\ f = "executions"

\* A run created client s and has not attached its scopes, or died before it did;
\* or they, or a scope, were deleted.  No run attaches scopes to a client it finds.
ScopesUnattached(s) ==
  \/ \E p \in Starts : start[p].state \in {"running", "dead"} /\ start[p].half = s
  \/ <<"links", s>> \in Removals
  \/ \E t \in Seeds : <<"scopes", t>> \in Removals

\* "It converges ... so a process that crashed midway through a previous run is
\* repaired on the next call": a run that ends well leaves every seed in place, save
\* what went while it ran; in the functions that return at once where a row exists,
\* what an administrator took out or another run left undone; and the scopes of a
\* client that some run created without coming to attach them.
StartConverges ==
  [][\A p \in Starts :
       Running(p) /\ start'[p].state = "serving" =>
         \A f \in Families \ {"orphans"}, s \in Seeds :
           \/ seeded[f][s] > 0
           \/ <<f, s>> \in Lost(p)
           \/ f \in GuardedFamilies \cup {"configs"} /\ <<f, s>> \in Removals
           \/ f \in GuardedFamilies /\ LeftHalfDone(f)
           \/ f = "links" /\ ScopesUnattached(s)]_seedingVars

\* "repaired rather than duplicated" (ensureComponents): unless two runs met, no
\* seed has a second row - but for the configurations, which a run that died
\* before its first flow leaves for the next one to write again, and the roles of a
\* client that was deleted, which stay when the next run writes them anew.
RestartDuplicatesNothing ==
  /\ \A f \in Families \ {"orphans"}, s \in Seeds :
       \/ seeded[f][s] <= 1
       \/ together
       \/ f = "configs" /\ \E p \in Starts : /\ start[p].state = "dead"
                                              /\ Plan[start[p].at] \in {"configs", "flows"}
  /\ \A s \in Seeds : \/ seeded["clientRoles"][s] + seeded["orphans"][s] <= 1
                      \/ <<"clients", s>> \in Removals
=============================================================================
