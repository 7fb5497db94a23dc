----------------------------- MODULE KeyManager -----------------------------
(***************************************************************************)
(* internal/keys/manager.go: several Gloak processes over one database     *)
(* resolve the key set of one realm, creating it on first use.             *)
(*                                                                         *)
(* ForRealm holds its process's mutex, so a process has one call in        *)
(* flight; the store calls inside it are the steps that interleave with    *)
(* other processes.  A key is named by the generation that made it.        *)
(***************************************************************************)
EXTENDS Naturals, FiniteSets

CONSTANTS
  Replicas,    \* the processes
  Gens,        \* generated key material, bounding how often Generate may run
  MaxCrashes,  \* bound on process crashes
  None         \* no key

ASSUME KeyManagerAssumption ==
  /\ None \notin Gens
  /\ MaxCrashes \in Nat

\* The rows of a set in the order create stores them.
Algs == 1..4
RS256 == 1
RSAOAEP == 2
HS512 == 3
AES == 4

\* The keys load insists on.
Core == {RS256, RSAOAEP, HS512}

VARIABLES
  rows,     \* realm_key: the stored key of each algorithm
  cache,    \* Manager.cached, per process
  pc,       \* where the call in flight is
  k,        \* the RealmKeys value the call is building
  next,     \* create: the row it stores next
  used,     \* generations drawn
  crashes   \* crashes so far

vars == <<rows, cache, pc, k, next, used, crashes>>

KeySet == [Algs -> Gens \cup {None}]
NoKeys == [a \in Algs |-> None]

TypeOK ==
  /\ rows \in KeySet
  /\ cache \in [Replicas -> KeySet]
  /\ pc \in [Replicas -> {"idle", "load", "create", "reread", "addAES", "rereadAES"}]
  /\ k \in [Replicas -> KeySet]
  /\ next \in [Replicas -> Algs]
  /\ used \in SUBSET Gens
  /\ crashes \in 0..MaxCrashes

Init ==
  /\ rows \in {[a \in Algs |-> IF a \in S THEN g ELSE None]
                 : S \in {{}, Core, Algs}, g \in Gens}
  /\ cache = [r \in Replicas |-> NoKeys]
  /\ pc = [r \in Replicas |-> "idle"]
  /\ k = [r \in Replicas |-> NoKeys]
  /\ next = [r \in Replicas |-> RS256]
  /\ used = {rows[a] : a \in Algs} \ {None}
  /\ crashes = 0

-----------------------------------------------------------------------------
\* Mutant: the AES key is on load's list too.
IncompleteWithoutAES(set) == set # NoKeys /\ \E a \in Algs : set[a] = None

\* Mutant: load takes what it finds.
NeverIncomplete(set) == FALSE

\* load refuses a set that is there and lacks one of the three keys.
Incomplete(set) == set # NoKeys /\ \E a \in Core : set[a] = None

\* The set is cached and the call returns it.
Serve(r, set) ==
  /\ cache' = [cache EXCEPT ![r] = set]
  /\ pc' = [pc EXCEPT ![r] = "idle"]

\* The call returns an error and caches nothing.
Fail(r) == pc' = [pc EXCEPT ![r] = "idle"] /\ UNCHANGED cache

\* ForRealm on a process that has nothing cached; a cached set is answered at once.
ForRealm(r) ==
  /\ pc[r] = "idle" /\ cache[r] = NoKeys
  /\ pc' = [pc EXCEPT ![r] = "load"]
  /\ UNCHANGED <<rows, cache, k, next, used, crashes>>

\* The first load: nothing stored, part of a set, a set without the AES key, a set.
Load(r) ==
  /\ pc[r] = "load"
  /\ \/ /\ rows = NoKeys
        /\ \E g \in Gens \ used : /\ k' = [k EXCEPT ![r] = [a \in Algs |-> g]]
                                  /\ used' = used \cup {g}
        /\ next' = [next EXCEPT ![r] = RS256]
        /\ pc' = [pc EXCEPT ![r] = "create"]
        /\ UNCHANGED cache
     \/ /\ Incomplete(rows)
        /\ Fail(r)
        /\ UNCHANGED <<k, next, used>>
     \/ /\ rows # NoKeys /\ ~Incomplete(rows) /\ rows[AES] = None
        /\ k' = [k EXCEPT ![r] = rows]
        /\ pc' = [pc EXCEPT ![r] = "addAES"]
        /\ UNCHANGED <<cache, next, used>>
     \/ /\ rows # NoKeys /\ ~Incomplete(rows) /\ rows[AES] # None
        /\ Serve(r, rows)
        /\ UNCHANGED <<k, next, used>>
  /\ UNCHANGED <<rows, crashes>>

\* Mutant: the loop over the rows runs one row too far.
CreateTooFar(r) ==
  /\ pc[r] = "create" /\ rows[next[r]] = None
  /\ rows' = [rows EXCEPT ![next[r]] = k[r][next[r]]]
  /\ next' = [next EXCEPT ![r] = @ + 1]
  /\ UNCHANGED <<cache, pc, k, used, crashes>>

\* create stores the rows one by one; (realm_id, algorithm) is unique.
Create(r) ==
  LET a == next[r] IN
  /\ pc[r] = "create"
  /\ \/ /\ rows[a] = None
        /\ rows' = [rows EXCEPT ![a] = k[r][a]]
        /\ IF a = AES THEN Serve(r, k[r]) /\ UNCHANGED next
           ELSE next' = [next EXCEPT ![r] = a + 1] /\ UNCHANGED <<cache, pc>>
     \/ /\ rows[a] # None
        /\ pc' = [pc EXCEPT ![r] = "reread"]
        /\ UNCHANGED <<rows, cache, next>>
  /\ UNCHANGED <<k, used, crashes>>

\* Mutant: on a conflict the generated set is served.
KeepOwnOnConflict(r) ==
  /\ pc[r] = "reread"
  /\ Serve(r, k[r])
  /\ UNCHANGED <<rows, k, next, used, crashes>>

\* create after a conflict returns what another process stored, or an error while
\* that is still part of a set.  The result is not checked for an AES key.
Reread(r) ==
  /\ pc[r] = "reread"
  /\ IF rows = NoKeys \/ Incomplete(rows) THEN Fail(r) ELSE Serve(r, rows)
  /\ UNCHANGED <<rows, k, next, used, crashes>>

\* addAES stores one more key under the same constraint.
AddAES(r) ==
  /\ pc[r] = "addAES"
  /\ \/ /\ rows[AES] = None
        /\ \E g \in Gens \ used : /\ rows' = [rows EXCEPT ![AES] = g]
                                  /\ Serve(r, [k[r] EXCEPT ![AES] = g])
                                  /\ used' = used \cup {g}
     \/ /\ rows[AES] # None
        /\ pc' = [pc EXCEPT ![r] = "rereadAES"]
        /\ UNCHANGED <<rows, cache, used>>
  /\ UNCHANGED <<k, next, crashes>>

\* addAES after a conflict takes the stored AES key into the set it had loaded.
RereadAES(r) ==
  /\ pc[r] = "rereadAES"
  /\ IF rows = NoKeys \/ Incomplete(rows) \/ rows[AES] = None THEN Fail(r)
     ELSE Serve(r, [k[r] EXCEPT ![AES] = rows[AES]])
  /\ UNCHANGED <<rows, k, next, used, crashes>>

\* A process dies at any point of a call and comes back with an empty cache.
Crash(r) ==
  /\ crashes < MaxCrashes
  /\ crashes' = crashes + 1
  /\ cache' = [cache EXCEPT ![r] = NoKeys]
  /\ pc' = [pc EXCEPT ![r] = "idle"]
  /\ UNCHANGED <<rows, k, next, used>>

Step(r) ==
  \/ ForRealm(r)
  \/ Load(r)
  \/ Create(r)
  \/ Reread(r)
  \/ AddAES(r)
  \/ RereadAES(r)

Next == \E r \in Replicas : Step(r) \/ Crash(r)

\* Requests for the realm keep arriving at every process and a store call returns;
\* crashes are not fair.
Spec == Init /\ [][Next]_vars /\ \A r \in Replicas : WF_vars(Step(r))

-----------------------------------------------------------------------------
(* Properties *)

\* What a process publishes is what is stored, so a kid survives a restart
\* ("a kid read back after a restart is the same kid that was published before").
CacheIsStored ==
  \A r \in Replicas, a \in Algs : cache[r][a] # None => cache[r][a] = rows[a]

\* Two processes never publish different keys for the realm (create: "both end up
\* publishing the same kid rather than one overwriting the other").
CachesAgree ==
  \A r, s \in Replicas, a \in Algs :
    cache[r][a] # None /\ cache[s][a] # None => cache[r][a] = cache[s][a]

\* A cached set always has its signing, encryption and HMAC key, and they were
\* generated together: no reader of a half-written set caches it.
CachedSetsAreWhole ==
  \A r \in Replicas :
    cache[r] # NoKeys
      => /\ \A a \in Core : cache[r][a] # None
         /\ cache[r][RSAOAEP] = cache[r][RS256] /\ cache[r][HS512] = cache[r][RS256]

\* Somebody died between create's first and third row: the set stays incomplete
\* and load refuses it from then on.
Torn ==
  /\ \E a, b \in Core : rows[a] # None /\ rows[b] = None
  /\ \A r \in Replicas : ~(pc[r] = "create" /\ next[r] > RS256)

\* Every process ends up with a key set, whoever wins the race to create it,
\* unless a crash tore the set.
EventuallyServed == \A r \in Replicas : <>[](Torn \/ cache[r] # NoKeys)

=============================================================================
