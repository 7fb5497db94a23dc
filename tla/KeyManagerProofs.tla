-------------------------- MODULE KeyManagerProofs --------------------------
(***************************************************************************)
(* What holds of KeyManager for any number of processes, generations and   *)
(* crashes.  IInv is inductive; the properties follow from it.             *)
(***************************************************************************)
EXTENDS KeyManager, TLAPS

\* A set being created is of one generation and its stored rows are in the table.
CreatorInv ==
  \A r \in Replicas :
    pc[r] = "create" =>
      /\ \A a \in Algs : k[r][a] # None /\ k[r][a] = k[r][RS256]
      /\ \A a \in Algs : a < next[r] => rows[a] = k[r][a]

\* A set addAES is completing was loaded whole and is still what is stored.
LoaderInv ==
  \A r \in Replicas :
    pc[r] \in {"addAES", "rereadAES"} =>
      /\ \A a \in Algs : k[r][a] # None => k[r][a] = rows[a]
      /\ \A a \in Core : k[r][a] # None

\* Core rows are stored in order and come from one generation.
RowsInv ==
  \A a, b \in Core : b < a /\ rows[a] # None => rows[b] = rows[a]

IInv ==
  /\ TypeOK
  /\ CreatorInv
  /\ LoaderInv
  /\ RowsInv
  /\ CacheIsStored
  /\ CachedSetsAreWhole

\* The rows of a set by number.
LEMMA AlgsFacts ==
  /\ Algs = {1, 2, 3, 4} /\ Core = {1, 2, 3} /\ Core \subseteq Algs
  /\ RS256 = 1 /\ RSAOAEP = 2 /\ HS512 = 3 /\ AES = 4
BY DEF Algs, Core, RS256, RSAOAEP, HS512, AES

\* The initial states satisfy the invariant.
LEMMA InitInv == Init => IInv
<1> SUFFICES ASSUME Init PROVE IInv
  OBVIOUS
<1> USE AlgsFacts, KeyManagerAssumption
<1>1. PICK S \in {{}, Core, Algs}, g \in Gens : rows = [a \in Algs |-> IF a \in S THEN g ELSE None]
  BY DEF Init
<1>2. TypeOK
  BY <1>1 DEF Init, TypeOK, KeySet, NoKeys
<1>3. CreatorInv /\ LoaderInv
  BY DEF Init, CreatorInv, LoaderInv
<1>4. RowsInv
  BY <1>1 DEF RowsInv
<1>5. CacheIsStored /\ CachedSetsAreWhole
  BY DEF Init, CacheIsStored, CachedSetsAreWhole, NoKeys
<1> QED
  BY <1>2, <1>3, <1>4, <1>5 DEF IInv


\* A stored key is never replaced: the unique constraint on (realm_id, algorithm).
LEMMA RowsStay ==
  ASSUME TypeOK, [Next]_vars, NEW a \in Algs, rows[a] # None
  PROVE  rows'[a] = rows[a]
<1> USE AlgsFacts, KeyManagerAssumption
<1>1. CASE UNCHANGED vars
  BY <1>1 DEF vars
<1>2. ASSUME NEW r \in Replicas, Create(r) PROVE rows'[a] = rows[a]
  BY <1>2 DEF Create, Serve, TypeOK, KeySet
<1>3. ASSUME NEW r \in Replicas, AddAES(r) PROVE rows'[a] = rows[a]
  BY <1>3 DEF AddAES, Serve, TypeOK, KeySet
<1>4. ASSUME NEW r \in Replicas,
             ForRealm(r) \/ Load(r) \/ Reread(r) \/ RereadAES(r) \/ Crash(r)
      PROVE  rows'[a] = rows[a]
  BY <1>4 DEF ForRealm, Load, Reread, RereadAES, Crash
<1> QED
  BY <1>1, <1>2, <1>3, <1>4 DEF Next, Step

\* A loaded set that load does not refuse has the three core keys, of one
\* generation.
LEMMA LoadedIsWhole ==
  ASSUME TypeOK, RowsInv, ~Incomplete(rows), rows # NoKeys
  PROVE  /\ \A a \in Core : rows[a] # None
         /\ rows[RSAOAEP] = rows[RS256] /\ rows[HS512] = rows[RS256]
BY AlgsFacts DEF Incomplete, RowsInv

\* Every step preserves the invariant.
LEMMA StepInv == IInv /\ [Next]_vars => IInv'
<1> SUFFICES ASSUME IInv, [Next]_vars PROVE IInv'
  OBVIOUS
<1> USE AlgsFacts, KeyManagerAssumption
<1>m. \A a \in Algs : rows[a] # None => rows'[a] = rows[a]
  BY RowsStay DEF IInv
<1>1. CASE UNCHANGED vars
  BY <1>1 DEF vars, IInv, TypeOK, CreatorInv, LoaderInv, RowsInv, CacheIsStored, CachedSetsAreWhole
<1>2. ASSUME NEW r \in Replicas, ForRealm(r) PROVE IInv'
  BY <1>2 DEF ForRealm, IInv, TypeOK, CreatorInv, LoaderInv, RowsInv, CacheIsStored, CachedSetsAreWhole
<1>3. ASSUME NEW r \in Replicas, Load(r) PROVE IInv'
  <2>1. TypeOK'
    <3>1. cache' \in [Replicas -> KeySet] /\ pc' \in [Replicas -> {"idle", "load", "create", "reread", "addAES", "rereadAES"}]
      BY <1>3 DEF IInv, TypeOK, Load, Serve, Fail
    <3>2. k' \in [Replicas -> KeySet]
      <4>1. \A g \in Gens : [a \in Algs |-> g] \in KeySet
        BY DEF KeySet
      <4>2. CASE \E g \in Gens : k' = [k EXCEPT ![r] = [a \in Algs |-> g]]
        BY <4>1, <4>2 DEF IInv, TypeOK
      <4>3. CASE k' = k \/ k' = [k EXCEPT ![r] = rows]
        BY <4>3 DEF IInv, TypeOK
      <4> QED BY <1>3, <4>2, <4>3 DEF Load
    <3>3. next' \in [Replicas -> Algs] /\ used' \in SUBSET Gens
      BY <1>3 DEF IInv, TypeOK, Load
    <3> QED BY <1>3, <3>1, <3>2, <3>3 DEF IInv, TypeOK, Load
  <2>2. CreatorInv'
    BY <1>3 DEF IInv, TypeOK, CreatorInv, Load, Serve, Fail, KeySet
  <2>3. LoaderInv'
    BY <1>3, LoadedIsWhole DEF IInv, TypeOK, LoaderInv, Load, Serve, Fail, KeySet
  <2>4. RowsInv'
    BY <1>3 DEF IInv, RowsInv, Load
  <2>5. CacheIsStored'
    BY <1>3 DEF IInv, TypeOK, CacheIsStored, Load, Serve, Fail, KeySet
  <2>6. CachedSetsAreWhole'
    BY <1>3, LoadedIsWhole DEF IInv, TypeOK, CachedSetsAreWhole, Load, Serve, Fail, KeySet
  <2> QED BY <2>1, <2>2, <2>3, <2>4, <2>5, <2>6 DEF IInv
<1>4. ASSUME NEW r \in Replicas, Create(r) PROVE IInv'
  <2>1. TypeOK'
    <3>1. rows' \in KeySet
      BY <1>4 DEF IInv, TypeOK, Create, KeySet
    <3>2. cache' \in [Replicas -> KeySet] /\ next' \in [Replicas -> Algs]
      BY <1>4 DEF IInv, TypeOK, Create, Serve
    <3>3. pc' \in [Replicas -> {"idle", "load", "create", "reread", "addAES", "rereadAES"}]
      BY <1>4 DEF IInv, TypeOK, Create, Serve
    <3> QED BY <1>4, <3>1, <3>2, <3>3 DEF IInv, TypeOK, Create
  <2>2. CreatorInv'
    BY <1>4, <1>m DEF IInv, TypeOK, CreatorInv, Create, Serve, KeySet
  <2>3. LoaderInv'
    BY <1>4, <1>m DEF IInv, TypeOK, LoaderInv, Create, Serve, KeySet
  <2>4. RowsInv'
    BY <1>4, <1>m DEF IInv, TypeOK, RowsInv, CreatorInv, Create, KeySet
  <2>5. CacheIsStored'
    BY SMTT(30), <1>4, <1>m DEF IInv, TypeOK, CacheIsStored, CreatorInv, Create, Serve, KeySet
  <2>6. CachedSetsAreWhole'
    BY <1>4 DEF IInv, TypeOK, CachedSetsAreWhole, CreatorInv, Create, Serve, KeySet
  <2> QED BY <2>1, <2>2, <2>3, <2>4, <2>5, <2>6 DEF IInv
<1>5. ASSUME NEW r \in Replicas, Reread(r) PROVE IInv'
  <2>1. TypeOK'
    BY ZenonT(60), <1>5 DEF IInv, TypeOK, Reread, Serve, Fail, KeySet
  <2>2. CreatorInv' /\ LoaderInv' /\ RowsInv'
    BY <1>5 DEF IInv, TypeOK, CreatorInv, LoaderInv, RowsInv, Reread, Serve, Fail
  <2>3. CacheIsStored'
    BY <1>5 DEF IInv, TypeOK, CacheIsStored, Reread, Serve, Fail, KeySet
  <2>4. CachedSetsAreWhole'
    BY <1>5, LoadedIsWhole DEF IInv, TypeOK, CachedSetsAreWhole, Reread, Serve, Fail, KeySet
  <2> QED BY <2>1, <2>2, <2>3, <2>4 DEF IInv
<1>6. ASSUME NEW r \in Replicas, AddAES(r) PROVE IInv'
  <2>1. TypeOK'
    BY <1>6 DEF IInv, TypeOK, AddAES, Serve, KeySet
  <2>2. CreatorInv' /\ LoaderInv'
    BY <1>6, <1>m DEF IInv, TypeOK, CreatorInv, LoaderInv, AddAES, Serve, KeySet
  <2>3. RowsInv'
    <3>1. \A a \in Core : rows'[a] = rows[a]
      BY <1>6 DEF IInv, TypeOK, AddAES, Serve, KeySet
    <3>2. SUFFICES ASSUME NEW a \in Core, NEW b \in Core, b < a, rows'[a] # None
                   PROVE  rows'[b] = rows'[a]
      BY DEF RowsInv
    <3>3. rows'[a] = rows[a] /\ rows'[b] = rows[b]
      BY <3>1
    <3> QED BY <3>2, <3>3 DEF IInv, RowsInv
  <2>4. CacheIsStored'
    BY <1>6, <1>m DEF IInv, TypeOK, CacheIsStored, LoaderInv, AddAES, Serve, KeySet
  <2>5. CachedSetsAreWhole'
    BY <1>6 DEF IInv, TypeOK, CachedSetsAreWhole, LoaderInv, RowsInv, AddAES, Serve, KeySet
  <2> QED BY <2>1, <2>2, <2>3, <2>4, <2>5 DEF IInv
<1>7. ASSUME NEW r \in Replicas, RereadAES(r) PROVE IInv'
  <2>1. TypeOK'
    <3>1. [k[r] EXCEPT ![AES] = rows[AES]] \in KeySet
      BY DEF IInv, TypeOK, KeySet
    <3> QED BY <1>7, <3>1 DEF IInv, TypeOK, RereadAES, Serve, Fail
  <2>2. CreatorInv' /\ LoaderInv' /\ RowsInv'
    BY <1>7 DEF IInv, TypeOK, CreatorInv, LoaderInv, RowsInv, RereadAES, Serve, Fail
  <2>3. CacheIsStored'
    BY <1>7 DEF IInv, TypeOK, CacheIsStored, LoaderInv, RereadAES, Serve, Fail, KeySet
  <2>4. CachedSetsAreWhole'
    BY <1>7 DEF IInv, TypeOK, CachedSetsAreWhole, LoaderInv, RowsInv, RereadAES, Serve, Fail, KeySet
  <2> QED BY <2>1, <2>2, <2>3, <2>4 DEF IInv
<1>8. ASSUME NEW r \in Replicas, Crash(r) PROVE IInv'
  BY <1>8 DEF Crash, IInv, TypeOK, CreatorInv, LoaderInv, RowsInv, CacheIsStored,
              CachedSetsAreWhole, KeySet, NoKeys
<1> QED
  BY <1>1, <1>2, <1>3, <1>4, <1>5, <1>6, <1>7, <1>8 DEF Next, Step

\* IInv holds of every reachable state, whatever processes crash and when.
LEMMA Invariance == Spec => []IInv
BY InitInv, StepInv, PTL DEF Spec

\* The variables keep their types.
THEOREM TypeCorrect == Spec => []TypeOK
BY Invariance, PTL DEF IInv

\* A published key is the stored one, so every process publishes the same kids
\* and a restart republishes them.
THEOREM PublishedKeysAreStored == Spec => []CacheIsStored
BY Invariance, PTL DEF IInv

\* Two processes never publish different keys of the realm, whichever of them won
\* the race to create the set.
THEOREM ReplicasAgree == Spec => []CachesAgree
<1>1. IInv => CachesAgree
  BY DEF IInv, CacheIsStored, CachesAgree
<1> QED BY Invariance, <1>1, PTL

\* A process never serves a set whose keys are missing or come from two
\* generations, although rows are stored one by one.
THEOREM ServedSetsAreWhole == Spec => []CachedSetsAreWhole
BY Invariance, PTL DEF IInv

=============================================================================
