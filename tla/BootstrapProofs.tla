-------------------------- MODULE BootstrapProofs ---------------------------
(***************************************************************************)
(* Theorems about the seeding of master and about the realms with their    *)
(* containers in master, for any number of starts, realms and requests.    *)
(***************************************************************************)
EXTENDS RealmSeeding, RealmContainers, TLAPS

-----------------------------------------------------------------------------
(* The seeding of master *)

LEMMA PlanFacts ==
  /\ Len(Plan) = 11
  /\ Plan[1] = "scopes" /\ Plan[2] = "actions" /\ Plan[3] = "components" /\ Plan[4] = "configs"
  /\ Plan[5] = "flows" /\ Plan[6] = "executions" /\ Plan[7] = "clients" /\ Plan[8] = "roles"
  /\ Plan[9] = "clientRoles" /\ Plan[10] = "mappings" /\ Plan[11] = "admin"
  /\ \A f : f \in Families <=> f \in {"links", "orphans"} \/ \E j \in 1..11 : f = Plan[j]
<1>1. /\ Len(Plan) = 11
      /\ Plan[1] = "scopes" /\ Plan[2] = "actions" /\ Plan[3] = "components" /\ Plan[4] = "configs"
      /\ Plan[5] = "flows" /\ Plan[6] = "executions" /\ Plan[7] = "clients" /\ Plan[8] = "roles"
      /\ Plan[9] = "clientRoles" /\ Plan[10] = "mappings" /\ Plan[11] = "admin"
  BY DEF Plan
<1>2. DOMAIN Plan = 1..11
  BY DEF Plan
<1>3. \A f : f \in Families <=> f \in {"links", "orphans"} \/ \E j \in 1..11 : f = Plan[j]
  BY <1>2 DEF Families
<1> QED BY <1>1, <1>3

LEMMA PlanIsInjective ==
  ASSUME NEW i \in 1..11, NEW j \in 1..11, Plan[i] = Plan[j]
  PROVE  i = j
BY PlanFacts

\* Run p has dealt with seed s of the j-th family.
Past(p, j, s) ==
  Running(p) /\ (j < start[p].at \/ (j = start[p].at /\ s \notin start[p].todo))

\* Seed s of a family that is seeded only when empty is there, or its absence has a reason.
Excused(f, s) == seeded[f][s] > 0 \/ <<f, s>> \in Removals \/ LeftHalfDone(f)

\* The flows have begun: no run seeds them or their configurations again.
FlowsBegun == Present("flows") # {}

\* Seed s of family f is there for run p, or there is a reason why it is not.
SeedDealt(p, f, s) ==
  IF f \in GuardedFamilies THEN Excused(f, s)
  ELSE \/ seeded[f][s] > 0 \/ <<f, s>> \in Lost(p)
       \/ f = "configs" /\ <<f, s>> \in Removals

SeedStarts ==
  /\ \A p \in Starts : start[p].state \in {"running", "dead"} => start[p].at \in 1..11
  /\ \A p \in Starts : removed[p] \subseteq Removable \X Seeds

\* What a run has dealt with is there, unless it was removed meanwhile or has an excuse.
SeedPast == \A p \in Starts, j \in 1..11, s \in Seeds : Past(p, j, s) => SeedDealt(p, Plan[j], s)

\* A run inside such a family has written what is no longer to be written.
SeedHalf ==
  \A p \in Starts, s \in Seeds :
    /\ Running(p) /\ start[p].at \in 1..11 /\ Plan[start[p].at] \in GuardedFamilies
    /\ start[p].todo # {} /\ s \notin start[p].todo
    => seeded[Plan[start[p].at]][s] > 0 \/ <<Plan[start[p].at], s>> \in Removals

\* Where a run finds a row and returns, there is an excuse for what is missing.
SeedFound ==
  /\ Present("actions") # {} => \A s \in Seeds : Excused("actions", s)
  /\ FlowsBegun => \A s \in Seeds : /\ seeded["configs"][s] > 0 \/ <<"configs", s>> \in Removals
                                    /\ Excused("flows", s) /\ Excused("executions", s)

\* A client without its scopes has a run that created it and has not attached them;
\* the scopes such a run knows of are the realm's, but for those deleted.
SeedLinks ==
  /\ \A s \in Seeds : seeded["clients"][s] > 0 => seeded["links"][s] > 0 \/ ScopesUnattached(s)
  /\ \A p \in Starts : start[p].state = "new" => start[p].half = 0
  /\ \A p \in Starts : start[p].half # 0 /\ Running(p) =>
       /\ start[p].at >= 7
       /\ \A t \in Seeds \ start[p].inherits : <<"scopes", t>> \in removed[p]

SeedRows == SeedingTypeOK /\ SeedStarts /\ SeedPast /\ SeedHalf /\ SeedFound

SeedInv == SeedRows /\ SeedLinks

LEMMA StartRecordIs ==
  StartRecord = [state : StartStates, at : 0..12, todo : SUBSET Seeds,
                 half : 0..SeedCount, inherits : SUBSET Seeds]
BY PlanFacts DEF StartRecord

LEMMA SeedTypes ==
  ASSUME SeedRows
  PROVE  /\ seeded \in [Families -> [Seeds -> Nat]]
         /\ start \in [Starts -> StartRecord]
         /\ removed \in [Starts -> SUBSET (Families \X Seeds)]
         /\ \A p \in Starts : /\ start[p].at \in 0..12 /\ start[p].todo \in SUBSET Seeds
                              /\ start[p].half \in 0..SeedCount /\ start[p].inherits \in SUBSET Seeds
<1>1. /\ seeded \in [Families -> [Seeds -> Nat]]
      /\ start \in [Starts -> StartRecord]
      /\ removed \in [Starts -> SUBSET (Families \X Seeds)]
  BY DEF SeedRows, SeedingTypeOK
<1>2. \A p \in Starts : start[p] \in StartRecord
  BY <1>1
<1> QED BY <1>1, <1>2, StartRecordIs

\* Configurations and scopes go by their own deletion only.
LEMMA LostConfigs ==
  ASSUME SeedRows, NEW p \in Starts, NEW f \in {"configs", "scopes"}, NEW s, <<f, s>> \in Lost(p)
  PROVE  <<f, s>> \in removed[p] /\ <<f, s>> \in Removals
<1>1. PICK e \in removed[p] : <<f, s>> \in Gone(e[1], e[2])
  BY DEF Lost
<1>2. PICK g \in Removable, t \in Seeds : e = <<g, t>>
  BY DEF SeedRows, SeedStarts
<1>3. <<f, s>> = <<g, t>>
  BY <1>1, <1>2 DEF Gone
<1> QED BY <1>1, <1>2, <1>3 DEF Removals

\* A step of one run that writes nothing.
LEMMA SeedMoveTypes ==
  ASSUME SeedRows, NEW p \in Starts, NEW r \in StartRecord,
         start' = [start EXCEPT ![p] = r], UNCHANGED <<seeded, removed>>, together' \in BOOLEAN,
         r.state \in {"running", "dead"} => r.at \in 1..11
  PROVE  /\ SeedingTypeOK' /\ SeedStarts'
         /\ \A o \in Starts : start'[o] = IF o = p THEN r ELSE start[o]
         /\ Removals' = Removals /\ \A f : Present(f)' = Present(f)
         /\ \A o : Lost(o)' = Lost(o)
<1>1. \A o \in Starts : start'[o] = IF o = p THEN r ELSE start[o]
  BY SeedTypes
<1>2. start' \in [Starts -> StartRecord]
  BY SeedTypes
<1>3. SeedingTypeOK'
  BY <1>2, PlanFacts DEF SeedRows, SeedingTypeOK, StartRecord
<1>4. SeedStarts'
  BY <1>1 DEF SeedRows, SeedStarts
<1> QED BY <1>1, <1>3, <1>4 DEF Removals, Present, Lost

\* It keeps what was done, and what it adds to what it is past.
LEMMA SeedMoveKeeps ==
  ASSUME SeedRows, NEW p \in Starts, NEW r \in StartRecord,
         start' = [start EXCEPT ![p] = r], UNCHANGED <<seeded, removed>>, together' \in BOOLEAN,
         r.state \in {"running", "dead"} => r.at \in 1..11,
         \A f \in GuardedFamilies : LeftHalfDone(f) => LeftHalfDone(f)',
         \A j \in 1..11, s \in Seeds :
           r.state = "running" /\ (j < r.at \/ (j = r.at /\ s \notin r.todo)) =>
             \/ Past(p, j, s)
             \/ SeedDealt(p, Plan[j], s),
         r.state = "running" /\ Plan[r.at] \in GuardedFamilies =>
           r.todo \in {{}, Seeds} \/ (r.todo = start[p].todo /\ r.at = start[p].at /\ Running(p))
  PROVE  SeedRows'
<1>1. /\ SeedingTypeOK' /\ SeedStarts'
      /\ \A o \in Starts : start'[o] = IF o = p THEN r ELSE start[o]
      /\ Removals' = Removals /\ \A f : Present(f)' = Present(f)
      /\ \A o : Lost(o)' = Lost(o)
  BY SeedMoveTypes
<1>2. ASSUME NEW f \in GuardedFamilies, NEW s, Excused(f, s) PROVE Excused(f, s)'
  BY <1>1, <1>2 DEF Excused
<1>3. {"actions", "flows", "executions"} \subseteq GuardedFamilies
  BY DEF GuardedFamilies
<1>4. ASSUME NEW o \in Starts, NEW j \in 1..11, NEW s \in Seeds, Past(o, j, s)'
      PROVE  SeedDealt(o, Plan[j], s)'
  <2>1. Past(o, j, s) => SeedDealt(o, Plan[j], s)
    BY DEF SeedRows, SeedPast
  <2>2. CASE o # p
    <3>1. Past(o, j, s)
      BY <1>1, <1>4, <2>2 DEF Past, Running
    <3> QED BY <1>1, <1>2, <2>1, <3>1 DEF SeedDealt
  <2>3. CASE o = p
    <3>1. r.state = "running" /\ (j < r.at \/ (j = r.at /\ s \notin r.todo))
      BY <1>1, <1>4, <2>3 DEF Past, Running
    <3> QED BY <1>1, <1>2, <2>1, <2>3, <3>1 DEF SeedDealt
  <2> QED BY <2>2, <2>3
<1>5. ASSUME NEW o \in Starts, NEW s \in Seeds,
             start'[o].state = "running", start'[o].at \in 1..11, Plan[start'[o].at] \in GuardedFamilies,
             start'[o].todo # {}, s \notin start'[o].todo
      PROVE  seeded[Plan[start'[o].at]][s] > 0 \/ <<Plan[start'[o].at], s>> \in Removals
  BY <1>1, <1>5 DEF SeedRows, SeedHalf, Running
<1>6. SeedPast'
  BY <1>4 DEF SeedPast
<1>7. SeedHalf'
  BY <1>1, <1>5 DEF SeedHalf, Running
<1>8. SeedFound'
  BY <1>1, <1>2, <1>3 DEF SeedFound, SeedRows, FlowsBegun
<1> QED BY <1>1, <1>6, <1>7, <1>8 DEF SeedRows

LEMMA SeedBeginKeeps ==
  ASSUME SeedRows, NEW p \in Starts, Begin(p)
  PROVE  SeedRows'
<1> DEFINE r == [start[p] EXCEPT !.state = "running", !.at = 1, !.todo = Seeds]
<1>1. /\ start' = [start EXCEPT ![p] = r] /\ UNCHANGED <<seeded, removed>> /\ start[p].state = "new"
      /\ together' \in BOOLEAN
  BY DEF Begin
<1>2. r \in StartRecord /\ r.state = "running" /\ r.at = 1 /\ r.todo = Seeds
  <2>1. start[p] \in StartRecord
    BY SeedTypes
  <2>2. Seeds \in SUBSET Seeds /\ 1 \in 0..12 /\ "running" \in StartStates
    BY DEF StartStates
  <2> QED BY <2>1, <2>2, StartRecordIs
<1> HIDE DEF r
<1>3. \A o \in Starts : start'[o] = IF o = p THEN r ELSE start[o]
  BY <1>1, SeedTypes
<1>4. ASSUME NEW f, LeftHalfDone(f) PROVE LeftHalfDone(f)'
  BY <1>1, <1>3, <1>4 DEF LeftHalfDone
<1>5. \A j \in 1..11, s \in Seeds : ~(j < r.at \/ (j = r.at /\ s \notin r.todo))
  BY <1>2
<1>6. r.todo \in {{}, Seeds}
  BY <1>2
<1>7. r.at \in 1..11
  BY <1>2
<1> QED BY <1>1, <1>2, <1>4, <1>5, <1>6, <1>7, SeedMoveKeeps

LEMMA SeedServeDieKeep ==
  ASSUME SeedRows, NEW p \in Starts, Serve(p) \/ Die(p)
  PROVE  SeedRows'
<1>0. UNCHANGED <<seeded, removed, together>> /\ together' \in BOOLEAN /\ Running(p) /\ start[p].at \in 1..11
  BY DEF Serve, Die, SeedRows, SeedingTypeOK, SeedStarts, Running
<1>1. start[p] \in StartRecord
  BY SeedTypes
<1>2. CASE Serve(p)
  <2>0. PICK n \in 0..12 : n = Len(Plan) + 1
    BY PlanFacts
  <2> DEFINE r == [start[p] EXCEPT !.state = "serving", !.at = n]
  <2>1. start' = [start EXCEPT ![p] = r] /\ start[p].todo = {} /\ start[p].at = Len(Plan)
    BY <1>2, <2>0 DEF Serve
  <2>2. r \in StartRecord /\ r.state = "serving"
    BY <1>1, StartRecordIs DEF StartStates
  <2> HIDE DEF r
  <2>3. \A o \in Starts : start'[o] = IF o = p THEN r ELSE start[o]
    BY <2>1, SeedTypes
  <2>4. ASSUME NEW f, LeftHalfDone(f) PROVE LeftHalfDone(f)'
    BY <2>1, <2>3, <2>4, PlanFacts DEF LeftHalfDone
  <2> QED BY <1>0, <2>1, <2>2, <2>4, SeedMoveKeeps
<1>3. CASE Die(p)
  <2> DEFINE r == [start[p] EXCEPT !.state = "dead"]
  <2>1. start' = [start EXCEPT ![p] = r]
    BY <1>3 DEF Die
  <2>2. r \in StartRecord /\ r.state = "dead" /\ r.at = start[p].at /\ r.todo = start[p].todo
    BY <1>1, StartRecordIs DEF StartStates
  <2> HIDE DEF r
  <2>3. \A o \in Starts : start'[o] = IF o = p THEN r ELSE start[o]
    BY <2>1, SeedTypes
  <2>4. ASSUME NEW f, LeftHalfDone(f) PROVE LeftHalfDone(f)'
    BY <2>2, <2>3, <2>4 DEF LeftHalfDone
  <2> QED BY <1>0, <2>1, <2>2, <2>4, SeedMoveKeeps
<1> QED BY <1>2, <1>3

LEMMA NextFamilyKeeps ==
  ASSUME SeedRows, NEW p \in Starts, NextFamily(p)
  PROVE  SeedRows'
<1>0. PICK i : i = start[p].at + 1
  OBVIOUS
<1>1. /\ UNCHANGED <<seeded, removed, together>> /\ together' \in BOOLEAN /\ Running(p)
      /\ start[p].todo = {} /\ i \in 2..11 /\ start[p].at \in 1..10
  BY <1>0, PlanFacts, SeedTypes DEF NextFamily, SeedRows, SeedingTypeOK, SeedStarts, Running
<1>2. start[p] \in StartRecord
  BY SeedTypes
<1>3. \A j \in 1..11, s \in Seeds : j < i => Past(p, j, s)
  BY <1>0, <1>1 DEF Past
<1>4. Seeds # {}
  BY RealmSeedingAssumption DEF Seeds
<1>5. CASE SkipsFlows(i)
  <2> DEFINE r == [start[p] EXCEPT !.at = i + 2]
  <2>1. start' = [start EXCEPT ![p] = r]
    BY <1>0, <1>5 DEF NextFamily
  <2>2. i = 4 /\ FlowsBegun
    BY <1>1, <1>5, PlanFacts DEF SkipsFlows, FlowsBegun
  <2>3. r \in StartRecord /\ r.state = "running" /\ r.at = 6 /\ r.todo = {}
    BY <1>1, <1>2, <2>2, StartRecordIs DEF Running
  <2> HIDE DEF r
  <2>4. \A o \in Starts : start'[o] = IF o = p THEN r ELSE start[o]
    BY <2>1, SeedTypes
  <2>5. start[p].at = 3
    BY <1>0, <1>1, <2>2
  <2>6. ASSUME NEW f, LeftHalfDone(f) PROVE LeftHalfDone(f)'
    BY <1>1, <2>4, <2>5, <2>6, PlanFacts DEF LeftHalfDone
  <2>7. ASSUME NEW j \in 1..11, NEW s \in Seeds, j <= 6
        PROVE  \/ Past(p, j, s)
               \/ SeedDealt(p, Plan[j], s)
    <3>1. /\ seeded["configs"][s] > 0 \/ <<"configs", s>> \in Removals
          /\ Excused("flows", s) /\ Excused("executions", s)
      BY <2>2 DEF SeedRows, SeedFound
    <3>2. CASE j \in {1, 2, 3}
      BY <1>3, <2>2, <3>2
    <3>3. CASE j \in {4, 5, 6}
      BY <3>1, <3>3, PlanFacts DEF GuardedFamilies, SeedDealt
    <3> QED BY <2>7, <3>2, <3>3
  <2>8. \A j \in 1..11, s \in Seeds :
          r.state = "running" /\ (j < r.at \/ (j = r.at /\ s \notin r.todo)) =>
             \/ Past(p, j, s)
             \/ SeedDealt(p, Plan[j], s)
    BY <2>3, <2>7
  <2>9. r.todo \in {{}, Seeds} /\ r.at \in 1..11
    BY <2>3
  <2> QED BY <1>1, <2>1, <2>3, <2>6, <2>8, <2>9, SeedMoveKeeps
<1>6. CASE ~SkipsFlows(i)
  <2> DEFINE r == [start[p] EXCEPT !.at = i, !.todo = ToWrite(Plan[i])]
  <2>1. start' = [start EXCEPT ![p] = r]
    BY <1>0, <1>6 DEF NextFamily
  <2>2. ToWrite(Plan[i]) \in SUBSET Seeds
    BY DEF ToWrite
  <2>3. r \in StartRecord /\ r.state = "running" /\ r.at = i /\ r.todo = ToWrite(Plan[i])
    <3>1. i \in 0..12 /\ start[p].state = "running"
      BY <1>1 DEF Running
    <3> QED BY <1>2, <2>2, <3>1, StartRecordIs
  <2> HIDE DEF r
  <2>4. \A o \in Starts : start'[o] = IF o = p THEN r ELSE start[o]
    BY <2>1, SeedTypes
  <2>5. ASSUME NEW f, LeftHalfDone(f) PROVE LeftHalfDone(f)'
    <3>1. CASE start[p].at = 5 /\ f = "executions"
      <4>1. i = 6 /\ r.todo = Seeds
        BY <1>0, <2>3, <3>1, PlanFacts DEF ToWrite
      <4> QED BY <1>4, <2>3, <2>4, <3>1, <4>1, PlanFacts DEF LeftHalfDone
    <3>2. CASE ~(start[p].at = 5 /\ f = "executions")
      <4>1. PICK o \in Starts :
              /\ start[o].state \in {"running", "dead"}
              /\ \/ Plan[start[o].at] = f /\ start[o].todo # {}
                 \/ Plan[start[o].at] = "flows" /\ f = "executions"
        BY <2>5 DEF LeftHalfDone
      <4>2. o # p
        BY <1>1, <3>2, <4>1, PlanFacts
      <4> QED BY <2>4, <4>1, <4>2 DEF LeftHalfDone
    <3> QED BY <3>1, <3>2
  <2>6. ASSUME NEW s \in Seeds, s \notin r.todo
        PROVE  SeedDealt(p, Plan[i], s)
    <3>1. CASE Plan[i] = "actions"
      BY <2>3, <2>6, <3>1 DEF ToWrite, SeedRows, SeedFound, GuardedFamilies, SeedDealt
    <3>2. CASE Plan[i] = "components"
      BY <2>3, <2>6, <3>2 DEF ToWrite, Present, GuardedFamilies, SeedDealt
    <3> QED BY <2>3, <2>6, <3>1, <3>2 DEF ToWrite
  <2>7. Plan[i] \in GuardedFamilies => r.todo \in {{}, Seeds}
    BY <2>3 DEF ToWrite, GuardedFamilies
  <2>8. ASSUME NEW j \in 1..11, NEW s \in Seeds, j < r.at \/ (j = r.at /\ s \notin r.todo)
        PROVE  \/ Past(p, j, s)
               \/ SeedDealt(p, Plan[j], s)
    BY <1>3, <2>3, <2>6, <2>8
  <2>9. \A j \in 1..11, s \in Seeds :
          r.state = "running" /\ (j < r.at \/ (j = r.at /\ s \notin r.todo)) =>
             \/ Past(p, j, s)
             \/ SeedDealt(p, Plan[j], s)
    BY <2>8
  <2>10. r.at \in 1..11 /\ (Plan[r.at] \in GuardedFamilies => r.todo \in {{}, Seeds})
    BY <1>1, <2>3, <2>7
  <2> QED BY <1>1, <2>1, <2>3, <2>5, <2>9, <2>10, SeedMoveKeeps
<1> QED BY <1>5, <1>6

\* One write by p: its seed is there now and off p's list.
Writes(p, f, s) ==
  /\ seeded' = [seeded EXCEPT ![f][s] = IF f \in UniqueFamilies THEN 1 ELSE @ + 1]
  /\ start' \in [Starts -> StartRecord]
  /\ \A o \in Starts :
       /\ start'[o].state = start[o].state /\ start'[o].at = start[o].at
       /\ start'[o].todo = IF o = p THEN start[p].todo \ {s} ELSE start[o].todo
       /\ start'[o].half = IF o = p /\ f = "clients" /\ seeded["clients"][s] = 0
                           THEN s ELSE start[o].half
       /\ start'[o].inherits = IF o = p /\ f = "clients" /\ seeded["clients"][s] = 0
                               THEN Present("scopes") ELSE start[o].inherits

LEMMA WriteSeedWrites ==
  ASSUME SeedRows, NEW p \in Starts, WriteSeed(p)
  PROVE  /\ Running(p) /\ start[p].half = 0 /\ start[p].at \in 1..11 /\ UNCHANGED <<removed, together>>
         /\ \E s \in start[p].todo : Writes(p, Plan[start[p].at], s)
<1>0. PICK f : f = Plan[start[p].at]
  OBVIOUS
<1>1. Running(p) /\ start[p].half = 0 /\ start[p].at \in 1..11 /\ UNCHANGED <<removed, together>>
  BY DEF WriteSeed, SeedRows, SeedStarts, Running
<1>2. PICK s0 \in start[p].todo :
        /\ seeded' = [seeded EXCEPT ![f][s0] = IF f \in UniqueFamilies THEN 1 ELSE @ + 1]
        /\ start' = [start EXCEPT ![p] = Written(p, f, s0)]
  BY <1>0 DEF WriteSeed
<1>3. s0 \in Seeds /\ s0 \in 0..SeedCount /\ start[p].todo \in SUBSET Seeds /\ start[p] \in StartRecord
  BY SeedTypes, RealmSeedingAssumption DEF Seeds
<1>4. Present("scopes") \in SUBSET Seeds
  BY DEF Present
<1>5. PICK r : r = Written(p, f, s0)
  OBVIOUS
<1>6. /\ r \in StartRecord /\ r.state = start[p].state /\ r.at = start[p].at /\ r.todo = start[p].todo \ {s0}
      /\ r.half = IF f = "clients" /\ seeded["clients"][s0] = 0 THEN s0 ELSE start[p].half
      /\ r.inherits = IF f = "clients" /\ seeded["clients"][s0] = 0 THEN Present("scopes") ELSE start[p].inherits
  BY <1>3, <1>4, <1>5, StartRecordIs DEF Written
<1>7. start' = [start EXCEPT ![p] = r]
  BY <1>2, <1>5
<1>8. start' \in [Starts -> StartRecord] /\ \A o \in Starts : start'[o] = IF o = p THEN r ELSE start[o]
  BY <1>6, <1>7, SeedTypes
<1>9. \A o \in Starts :
        /\ start'[o].state = start[o].state /\ start'[o].at = start[o].at
        /\ start'[o].todo = IF o = p THEN start[p].todo \ {s0} ELSE start[o].todo
        /\ start'[o].half = IF o = p /\ f = "clients" /\ seeded["clients"][s0] = 0
                            THEN s0 ELSE start[o].half
        /\ start'[o].inherits = IF o = p /\ f = "clients" /\ seeded["clients"][s0] = 0
                                THEN Present("scopes") ELSE start[o].inherits
  BY <1>6, <1>8
<1>10. start' \in [Starts -> StartRecord]
  BY <1>8
<1>11. Writes(p, f, s0)
  BY <1>2, <1>9, <1>10 DEF Writes
<1> QED BY <1>0, <1>1, <1>11

LEMMA WriteSeedKeeps ==
  ASSUME SeedRows, NEW p \in Starts, WriteSeed(p)
  PROVE  SeedRows'
<1>0. PICK i : i = start[p].at
  OBVIOUS
<1>1. Running(p) /\ i \in 1..11 /\ UNCHANGED <<removed, together>>
  BY <1>0, WriteSeedWrites
<1>2. PICK f : f = Plan[i]
  OBVIOUS
<1>3. f \in Families /\ (f \in UniqueFamilies => f \notin GuardedFamilies)
  BY <1>1, <1>2, PlanFacts DEF UniqueFamilies, GuardedFamilies
<1>4. PICK s0 \in start[p].todo : Writes(p, f, s0)
  BY <1>0, <1>2, WriteSeedWrites
<1>5. s0 \in Seeds /\ start[p].todo \in SUBSET Seeds
  BY SeedTypes
<1>6. /\ start' \in [Starts -> StartRecord]
      /\ \A o \in Starts : /\ start'[o].state = start[o].state /\ start'[o].at = start[o].at
                           /\ start'[o].todo = IF o = p THEN start[p].todo \ {s0} ELSE start[o].todo
  BY <1>4 DEF Writes
<1>7. /\ seeded' \in [Families -> [Seeds -> Nat]]
      /\ \A g \in Families, s \in Seeds :
           seeded'[g][s] = IF g = f /\ s = s0 THEN (IF f \in UniqueFamilies THEN 1 ELSE seeded[f][s0] + 1)
                           ELSE seeded[g][s]
  BY <1>3, <1>4, <1>5, SeedTypes DEF Writes
<1>8. \A g \in Families, s \in Seeds : seeded[g][s] > 0 => seeded'[g][s] > 0
  BY <1>3, <1>5, <1>7, SeedTypes
<1>9. seeded'[f][s0] > 0
  BY <1>3, <1>5, <1>7, SeedTypes
<1>10. SeedingTypeOK'
  <2>1. ASSUME NEW g \in UniqueFamilies, NEW s \in Seeds PROVE seeded'[g][s] <= 1
    <3>1. g \in Families
      BY PlanFacts DEF UniqueFamilies
    <3> QED BY <1>7, <3>1 DEF SeedRows, SeedingTypeOK
  <2> QED BY <1>1, <1>6, <1>7, <2>1, PlanFacts DEF SeedRows, SeedingTypeOK, StartRecord
<1>11. SeedStarts'
  BY <1>1, <1>6 DEF SeedRows, SeedStarts
<1>12. Removals' = Removals /\ \A o : Lost(o)' = Lost(o)
  BY <1>1 DEF Removals, Lost
<1>13. GuardedFamilies \subseteq Families /\ {"actions", "flows", "configs", "executions"} \subseteq Families
  BY PlanFacts DEF GuardedFamilies
<1>14. ASSUME f \in GuardedFamilies, NEW s \in Seeds, s \notin start'[p].todo
       PROVE  seeded'[f][s] > 0 \/ <<f, s>> \in Removals
  <2>1. CASE s = s0
    BY <1>9, <2>1
  <2>2. CASE s # s0
    <3>1. s \notin start[p].todo
      BY <1>6, <1>14, <2>2
    <3>2. seeded[f][s] > 0 \/ <<f, s>> \in Removals
      BY <1>0, <1>1, <1>2, <1>14, <3>1 DEF SeedRows, SeedHalf
    <3> QED BY <1>3, <1>8, <3>2
  <2> QED BY <2>1, <2>2
<1>15. ASSUME NEW g \in GuardedFamilies, NEW s \in Seeds, Excused(g, s) PROVE Excused(g, s)'
  <2>1. CASE seeded[g][s] > 0 \/ <<g, s>> \in Removals
    BY <1>8, <1>12, <1>13, <2>1 DEF Excused
  <2>2. CASE LeftHalfDone(g)
    <3>1. CASE g = f /\ start'[p].todo = {}
      BY <1>12, <1>14, <3>1 DEF Excused
    <3>2. CASE ~(g = f /\ start'[p].todo = {})
      <4>1. LeftHalfDone(g)'
        <5>1. PICK o \in Starts :
                /\ start[o].state \in {"running", "dead"}
                /\ \/ Plan[start[o].at] = g /\ start[o].todo # {}
                   \/ Plan[start[o].at] = "flows" /\ g = "executions"
          BY <2>2 DEF LeftHalfDone
        <5> QED BY <1>0, <1>2, <1>6, <3>2, <5>1 DEF LeftHalfDone
      <4> QED BY <4>1 DEF Excused
    <3> QED BY <3>1, <3>2
  <2> QED BY <1>15, <2>1, <2>2 DEF Excused
<1>16. ASSUME f \in GuardedFamilies, NEW s \in Seeds PROVE Excused(f, s)'
  <2>1. CASE start'[p].todo = {}
    BY <1>12, <1>14, <1>16, <2>1 DEF Excused
  <2>2. CASE start'[p].todo # {}
    <3>1. LeftHalfDone(f)'
      BY <1>0, <1>1, <1>2, <1>6, <2>2 DEF LeftHalfDone, Running
    <3> QED BY <3>1 DEF Excused
  <2> QED BY <2>1, <2>2
<1>17. SeedPast'
  <2> SUFFICES ASSUME NEW o \in Starts, NEW j \in 1..11, NEW s \in Seeds, Past(o, j, s)'
               PROVE  SeedDealt(o, Plan[j], s)'
    BY DEF SeedPast
  <2>1. CASE Past(o, j, s)
    <3>1. SeedDealt(o, Plan[j], s)
      BY <2>1 DEF SeedRows, SeedPast
    <3>2. Plan[j] \in Families
      BY PlanFacts
    <3> QED BY <1>8, <1>12, <1>15, <3>1, <3>2 DEF SeedDealt
  <2>2. CASE ~Past(o, j, s)
    <3>1. o = p /\ j = i /\ s = s0
      BY <1>0, <1>1, <1>6, <2>2, SeedTypes DEF Past, Running
    <3> QED BY <1>2, <1>9, <1>16, <3>1 DEF SeedDealt
  <2> QED BY <2>1, <2>2
<1>18. SeedHalf'
  <2> SUFFICES ASSUME NEW o \in Starts, NEW s \in Seeds,
                      start'[o].state = "running", start'[o].at \in 1..11,
                      Plan[start'[o].at] \in GuardedFamilies, start'[o].todo # {}, s \notin start'[o].todo
               PROVE  seeded'[Plan[start'[o].at]][s] > 0 \/ <<Plan[start'[o].at], s>> \in Removals'
    BY DEF SeedHalf, Running
  <2>1. CASE o = p
    BY <1>0, <1>2, <1>6, <1>12, <1>14, <2>1
  <2>2. CASE o # p
    <3>1. seeded[Plan[start[o].at]][s] > 0 \/ <<Plan[start[o].at], s>> \in Removals
      BY <1>6, <2>2 DEF SeedRows, SeedHalf, Running
    <3>2. Plan[start[o].at] \in Families /\ start'[o].at = start[o].at
      BY <1>6, <1>13
    <3> QED BY <1>8, <1>12, <3>1, <3>2
  <2> QED BY <2>1, <2>2
<1>19. SeedFound'
  <2>1. ASSUME Present("actions")' # {}, NEW s \in Seeds PROVE Excused("actions", s)'
    <3>1. CASE f = "actions"
      BY <1>16, <3>1 DEF GuardedFamilies
    <3>2. CASE f # "actions"
      <4>1. Present("actions") # {}
        BY <1>7, <1>13, <2>1, <3>2 DEF Present
      <4> QED BY <1>15, <4>1 DEF SeedRows, SeedFound, GuardedFamilies
    <3> QED BY <3>1, <3>2
  <2>2. ASSUME FlowsBegun', NEW s \in Seeds
        PROVE  /\ seeded'["configs"][s] > 0 \/ <<"configs", s>> \in Removals'
               /\ Excused("flows", s)' /\ Excused("executions", s)'
    <3>1. CASE FlowsBegun
      <4>1. /\ seeded["configs"][s] > 0 \/ <<"configs", s>> \in Removals
            /\ Excused("flows", s) /\ Excused("executions", s)
        BY <3>1 DEF SeedRows, SeedFound
      <4> QED BY <1>8, <1>12, <1>13, <1>15, <4>1 DEF GuardedFamilies
    <3>2. CASE ~FlowsBegun
      <4>1. f = "flows"
        BY <1>7, <1>13, <2>2, <3>2 DEF Present, FlowsBegun
      <4>2. i = 5
        <5>1. Plan[i] = Plan[5] /\ 5 \in 1..11
          BY <1>2, <4>1, PlanFacts
        <5> QED BY <1>1, <5>1, PlanIsInjective
      <4>3. Past(p, 4, s) /\ Plan[4] = "configs"
        BY <1>0, <1>1, <4>2, PlanFacts DEF Past
      <4>4. SeedDealt(p, "configs", s) /\ "configs" \notin GuardedFamilies
        BY <4>3 DEF SeedRows, SeedPast, GuardedFamilies
      <4>5. <<"configs", s>> \in Lost(p) => <<"configs", s>> \in Removals
        BY LostConfigs
      <4>6. seeded["configs"][s] > 0 \/ <<"configs", s>> \in Removals
        BY <4>4, <4>5 DEF SeedDealt
      <4>7. LeftHalfDone("executions")'
        BY <1>0, <1>1, <1>2, <1>6, <4>1 DEF LeftHalfDone, Running
      <4>8. Excused("executions", s)'
        BY <4>7 DEF Excused
      <4>9. Excused("flows", s)'
        BY <1>16, <4>1 DEF GuardedFamilies
      <4> QED BY <1>8, <1>12, <1>13, <4>6, <4>8, <4>9
    <3> QED BY <3>1, <3>2
  <2> QED BY <2>1, <2>2 DEF SeedFound
<1> QED BY <1>10, <1>11, <1>17, <1>18, <1>19 DEF SeedRows

\* What is deleted by its own deletion only.
LEMMA GoneAlone ==
  ASSUME NEW f \in Removable, NEW s \in Seeds, NEW g, NEW t, <<g, t>> \in Gone(f, s)
  PROVE  /\ g \in {"links", "clientRoles", "mappings", "admin"} \/ (g = f /\ t = s)
         /\ g # "orphans" /\ <<f, s>> \in Gone(f, s)
BY DEF Gone, Removable

\* One deletion.
Removes(f, s) ==
  /\ seeded[f][s] > 0
  /\ seeded' \in [Families -> [Seeds -> Nat]]
  /\ \A g \in Families, t \in Seeds :
       /\ g # "orphans" /\ <<g, t>> \notin Gone(f, s) => seeded'[g][t] = seeded[g][t]
       /\ g # "orphans" => seeded'[g][t] <= seeded[g][t]
       /\ f # "clients" \/ t # s => seeded'["orphans"][t] = seeded["orphans"][t]
  /\ f = "clients" => seeded'["clients"][s] = 0
  /\ Removals' = Removals \cup {<<f, s>>}
  /\ removed' = [p \in Starts |-> IF start[p].state \in {"running", "serving"}
                                  THEN removed[p] \cup {<<f, s>>} ELSE removed[p]]
  /\ start' \in [Starts -> StartRecord] /\ UNCHANGED together
  /\ \A p \in Starts :
       /\ start'[p].state = start[p].state /\ start'[p].at = start[p].at /\ start'[p].todo = start[p].todo
       /\ start'[p].half = IF f = "clients" /\ start[p].half = s THEN 0 ELSE start[p].half
       /\ start'[p].half # 0 => start'[p].inherits = start[p].inherits

LEMMA RemoveSeedRemoves ==
  ASSUME SeedRows, RemoveSeed
  PROVE  \E f \in Removable, s \in Seeds : Removes(f, s)
<1>1. PICK f \in Removable, s0 \in Seeds :
        /\ seeded[f][s0] > 0
        /\ seeded' = RowsWithout(f, s0) /\ start' = RunsWithout(f, s0)
        /\ removed' = [p \in Starts |-> IF start[p].state \in {"running", "serving"}
                                        THEN removed[p] \cup {<<f, s0>>} ELSE removed[p]]
  BY DEF RemoveSeed
<1>2. PICK p0 \in Starts : start[p0].state = "serving"
  BY DEF RemoveSeed
<1>3. UNCHANGED together
  BY DEF RemoveSeed
<1>4. f \in Families /\ {"clientRoles", "orphans", "clients"} \subseteq Families /\ f # "orphans"
  BY PlanFacts DEF Removable
<1>5. \A g \in Families, t \in Seeds :
        /\ seeded[g][t] \in Nat
        /\ seeded'[g][t] = IF g = f /\ t = s0 THEN seeded[g][t] - 1
                           ELSE IF <<g, t>> \in Gone(f, s0) THEN 0
                           ELSE IF g = "orphans" /\ f = "clients" /\ t = s0
                             THEN seeded[g][t] + seeded["clientRoles"][t]
                           ELSE seeded[g][t]
  BY <1>1, SeedTypes DEF RowsWithout
<1>6. ASSUME NEW g \in Families, NEW t \in Seeds PROVE seeded'[g][t] \in Nat
  <2>1. seeded[g][t] \in Nat /\ seeded["clientRoles"][t] \in Nat
    BY <1>4, <1>5
  <2>2. CASE g = f /\ t = s0
    <3>1. seeded'[g][t] = seeded[g][t] - 1 /\ seeded[g][t] > 0
      BY <1>1, <1>5, <2>2
    <3> QED BY <2>1, <3>1
  <2>3. CASE ~(g = f /\ t = s0)
    <3>1. seeded'[g][t] \in {0, seeded[g][t] + seeded["clientRoles"][t], seeded[g][t]}
      BY <1>5, <2>3
    <3> QED BY <2>1, <3>1
  <2> QED BY <2>2, <2>3
<1>7. seeded' \in [Families -> [Seeds -> Nat]]
  BY <1>1, <1>6 DEF RowsWithout
<1>8. \A g \in Families, t \in Seeds :
        /\ g # "orphans" /\ <<g, t>> \notin Gone(f, s0) => seeded'[g][t] = seeded[g][t]
        /\ g # "orphans" => seeded'[g][t] <= seeded[g][t]
        /\ f # "clients" \/ t # s0 => seeded'["orphans"][t] = seeded["orphans"][t]
  <2>1. <<f, s0>> \in Gone(f, s0)
    BY DEF Gone
  <2>2. \A t : <<"orphans", t>> \notin Gone(f, s0)
    BY GoneAlone
  <2> SUFFICES ASSUME NEW g \in Families, NEW t \in Seeds
               PROVE  /\ g # "orphans" /\ <<g, t>> \notin Gone(f, s0) => seeded'[g][t] = seeded[g][t]
                      /\ g # "orphans" => seeded'[g][t] <= seeded[g][t]
                      /\ f # "clients" \/ t # s0 => seeded'["orphans"][t] = seeded["orphans"][t]
    OBVIOUS
  <2>3. seeded[g][t] \in Nat
    BY <1>5
  <2>4. ASSUME g # "orphans", <<g, t>> \notin Gone(f, s0) PROVE seeded'[g][t] = seeded[g][t]
    <3>1. ~(g = f /\ t = s0)
      BY <2>1, <2>4
    <3> QED BY <1>5, <2>4, <3>1
  <2>5. ASSUME g # "orphans", <<g, t>> \in Gone(f, s0) PROVE seeded'[g][t] <= seeded[g][t]
    <3>1. seeded'[g][t] \in {seeded[g][t] - 1, 0}
      BY <1>5, <2>5
    <3> QED BY <2>3, <3>1
  <2>6. ASSUME f # "clients" \/ t # s0 PROVE seeded'["orphans"][t] = seeded["orphans"][t]
    BY <1>4, <1>5, <2>2, <2>6
  <2> QED BY <2>3, <2>4, <2>5, <2>6
<1>9. ASSUME f = "clients" PROVE seeded'["clients"][s0] = 0
  <2>1. "clients" \in UniqueFamilies
    BY DEF UniqueFamilies
  <2>2. seeded["clients"][s0] <= 1 /\ seeded["clients"][s0] > 0 /\ seeded["clients"][s0] \in Nat
    BY <1>1, <1>4, <1>5, <1>9, <2>1 DEF SeedRows, SeedingTypeOK
  <2>3. seeded'["clients"][s0] = seeded["clients"][s0] - 1
    BY <1>4, <1>5, <1>9
  <2> QED BY <2>2, <2>3
<1>10. Removals' = Removals \cup {<<f, s0>>}
  BY <1>1, <1>2 DEF Removals
<1>11. \A p \in Starts : [start[p] EXCEPT !.half = 0, !.inherits = {}] \in StartRecord
  <2> SUFFICES ASSUME NEW p \in Starts PROVE [start[p] EXCEPT !.half = 0, !.inherits = {}] \in StartRecord
    OBVIOUS
  <2>1. start[p] \in StartRecord /\ 0 \in 0..SeedCount
    BY SeedTypes, RealmSeedingAssumption
  <2> QED BY <2>1, StartRecordIs
<1>12. start' \in [Starts -> StartRecord]
  BY <1>1, <1>11, SeedTypes DEF RunsWithout
<1>13. \A p \in Starts :
       /\ start'[p].state = start[p].state /\ start'[p].at = start[p].at /\ start'[p].todo = start[p].todo
       /\ start'[p].half = IF f = "clients" /\ start[p].half = s0 THEN 0 ELSE start[p].half
       /\ start'[p].half # 0 => start'[p].inherits = start[p].inherits
  <2> SUFFICES ASSUME NEW p \in Starts
               PROVE /\ start'[p].state = start[p].state /\ start'[p].at = start[p].at /\ start'[p].todo = start[p].todo
                     /\ start'[p].half = IF f = "clients" /\ start[p].half = s0 THEN 0 ELSE start[p].half
                     /\ start'[p].half # 0 => start'[p].inherits = start[p].inherits
    OBVIOUS
  <2>1. start[p] \in StartRecord
    BY SeedTypes
  <2>2. start'[p] = IF f = "clients" /\ start[p].half = s0
                    THEN [start[p] EXCEPT !.half = 0, !.inherits = {}] ELSE start[p]
    BY <1>1 DEF RunsWithout
  <2> QED BY <2>1, <2>2, StartRecordIs
<1>14. Removes(f, s0)
  BY <1>1, <1>3, <1>7, <1>8, <1>9, <1>10, <1>12, <1>13 DEF Removes
<1> QED BY <1>14

LEMMA RemoveSeedKeeps ==
  ASSUME SeedRows, RemoveSeed
  PROVE  SeedRows'
<1>1. PICK f \in Removable, s0 \in Seeds : Removes(f, s0)
  BY RemoveSeedRemoves
<1>3. UNCHANGED together /\ \A o \in Starts : /\ start'[o].state = start[o].state
                                              /\ start'[o].at = start[o].at /\ start'[o].todo = start[o].todo
  BY <1>1 DEF Removes
<1>4. f \in Families /\ Removable \subseteq Families /\ "orphans" \notin UniqueFamilies
  BY PlanFacts DEF Removable, UniqueFamilies
<1>6. SeedingTypeOK'
  <2>1. ASSUME NEW g \in UniqueFamilies, NEW s \in Seeds PROVE seeded'[g][s] <= 1
    <3>1. g \in Families /\ g # "orphans"
      BY <1>4, PlanFacts DEF UniqueFamilies
    <3>2. seeded[g][s] \in Nat /\ seeded[g][s] <= 1 /\ seeded'[g][s] \in Nat /\ seeded'[g][s] <= seeded[g][s]
      BY <1>1, <3>1, SeedTypes DEF SeedRows, SeedingTypeOK, Removes
    <3> QED BY <3>2
  <2>2. removed' \in [Starts -> SUBSET (Families \X Seeds)]
    BY <1>1, <1>4, SeedTypes DEF Removes
  <2> QED BY <1>1, <2>1, <2>2 DEF SeedRows, SeedingTypeOK, Removes
<1>7. SeedStarts'
  BY <1>1, <1>3 DEF SeedRows, SeedStarts, Removes
<1>8. Removals' = Removals \cup {<<f, s0>>}
  BY <1>1 DEF Removes
<1>9. ASSUME NEW g \in Families, NEW s \in Seeds, g # "orphans", seeded[g][s] > 0
      PROVE  seeded'[g][s] > 0 \/ <<g, s>> \in Gone(f, s0)
  BY <1>1, <1>9 DEF Removes
<1>10. \A g \in Families : g # "orphans" => Present(g)' \subseteq Present(g)
  <2> SUFFICES ASSUME NEW g \in Families, g # "orphans", NEW s \in Seeds, seeded'[g][s] > 0 PROVE seeded[g][s] > 0
    BY DEF Present
  <2>1. seeded[g][s] \in Nat /\ seeded'[g][s] \in Nat /\ seeded'[g][s] <= seeded[g][s]
    BY <1>1, SeedTypes DEF Removes
  <2> QED BY <2>1
<1>11. ASSUME NEW g \in GuardedFamilies, NEW s \in Seeds, Excused(g, s) PROVE Excused(g, s)'
  <2>1. g \in Families /\ g # "orphans" /\ g \notin {"links", "clientRoles", "mappings", "admin"}
    BY PlanFacts DEF GuardedFamilies
  <2>2. LeftHalfDone(g)' <=> LeftHalfDone(g)
    BY <1>3 DEF LeftHalfDone
  <2>3. ASSUME <<g, s>> \in Gone(f, s0) PROVE <<g, s>> \in Removals'
    <3>1. g = f /\ s = s0
      BY <2>1, <2>3, GoneAlone
    <3> QED BY <1>8, <3>1
  <2> QED BY <1>8, <1>9, <1>11, <2>1, <2>2, <2>3 DEF Excused
<1>12. SeedPast'
  <2> SUFFICES ASSUME NEW o \in Starts, NEW j \in 1..11, NEW s \in Seeds, Past(o, j, s)'
               PROVE  SeedDealt(o, Plan[j], s)'
    BY DEF SeedPast
  <2>1. Past(o, j, s) /\ Plan[j] \in Families /\ Plan[j] # "orphans"
    BY <1>3, PlanFacts DEF Past, Running
  <2>2. SeedDealt(o, Plan[j], s)
    BY <2>1 DEF SeedRows, SeedPast
  <2>3. removed'[o] = removed[o] \cup {<<f, s0>>}
    BY <1>1, <2>1 DEF Past, Running, Removes
  <2>4. Lost(o) \subseteq Lost(o)' /\ Gone(f, s0) \subseteq Lost(o)'
    BY <2>3 DEF Lost
  <2> QED BY <1>8, <1>9, <1>11, <2>1, <2>2, <2>4 DEF SeedDealt
<1>13. SeedHalf'
  <2> SUFFICES ASSUME NEW o \in Starts, NEW s \in Seeds,
                      start[o].state = "running", start[o].at \in 1..11,
                      Plan[start[o].at] \in GuardedFamilies, start[o].todo # {}, s \notin start[o].todo
               PROVE  seeded'[Plan[start[o].at]][s] > 0 \/ <<Plan[start[o].at], s>> \in Removals'
    BY <1>3 DEF SeedHalf, Running
  <2>0. PICK g : g \in GuardedFamilies /\ g = Plan[start[o].at]
    OBVIOUS
  <2>1. g \in Families /\ g # "orphans" /\ g \notin {"links", "clientRoles", "mappings", "admin"}
    BY <2>0, PlanFacts DEF GuardedFamilies
  <2>2. seeded[g][s] > 0 \/ <<g, s>> \in Removals
    BY <2>0 DEF SeedRows, SeedHalf, Running
  <2>3. ASSUME <<g, s>> \in Gone(f, s0) PROVE <<g, s>> \in Removals'
    <3>1. g = f /\ s = s0
      BY <2>1, <2>3, GoneAlone
    <3> QED BY <1>8, <3>1
  <2> QED BY <1>8, <1>9, <2>0, <2>1, <2>2, <2>3
<1>14. SeedFound'
  <2>1. {"actions", "flows", "configs"} \subseteq Families
    BY PlanFacts
  <2>2. Present("actions")' \subseteq Present("actions") /\ (FlowsBegun' => FlowsBegun)
    BY <1>10, <2>1 DEF FlowsBegun
  <2>3. ASSUME NEW s \in Seeds, seeded["configs"][s] > 0 \/ <<"configs", s>> \in Removals
        PROVE  seeded'["configs"][s] > 0 \/ <<"configs", s>> \in Removals'
    <3>1. ASSUME <<"configs", s>> \in Gone(f, s0) PROVE <<"configs", s>> \in Removals'
      <4>1. PICK g : g = "configs"
        OBVIOUS
      <4>2. <<g, s>> \in Gone(f, s0) /\ g \notin {"links", "clientRoles", "mappings", "admin"}
        BY <3>1, <4>1
      <4>3. g = f /\ s = s0
        BY <4>2, GoneAlone
      <4> QED BY <1>8, <4>1, <4>3
    <3> QED BY <1>8, <1>9, <2>1, <2>3, <3>1
  <2> QED BY <1>11, <2>2, <2>3 DEF SeedRows, SeedFound, GuardedFamilies
<1> QED BY <1>6, <1>7, <1>12, <1>13, <1>14 DEF SeedRows

\* The scopes of p's client, attached or not.
LEMMA AttachScopesMoves ==
  ASSUME SeedRows, NEW p \in Starts, AttachScopes(p)
  PROVE  /\ start[p].half \in Seeds /\ Running(p) /\ UNCHANGED <<removed, together>>
         /\ seeded' \in [Families -> [Seeds -> Nat]] /\ start' \in [Starts -> StartRecord]
         /\ \A g \in Families, s \in Seeds :
              seeded'[g][s] = IF g = "links" /\ s = start[p].half
                                 /\ start[p].inherits \cap Present("scopes") = Seeds
                              THEN 1 ELSE seeded[g][s]
         /\ \A o \in Starts :
              /\ start'[o].state = start[o].state /\ start'[o].at = start[o].at /\ start'[o].todo = start[o].todo
              /\ start'[o].half = IF o = p THEN 0 ELSE start[o].half
              /\ o # p => start'[o].inherits = start[o].inherits
<1>1. Running(p) /\ UNCHANGED <<removed, together>> /\ start[p].half # 0
  BY DEF AttachScopes
<1>2. PICK s0 : s0 = start[p].half
  OBVIOUS
<1>3. s0 \in Seeds /\ "links" \in Families /\ start[p] \in StartRecord /\ 0 \in 0..SeedCount
  BY <1>1, <1>2, SeedTypes, PlanFacts, RealmSeedingAssumption DEF Seeds
<1>4. PICK v : v = IF start[p].inherits \cap Present("scopes") = Seeds THEN 1 ELSE seeded["links"][s0]
  OBVIOUS
<1>5. seeded' = [seeded EXCEPT !["links"][s0] = v]
  BY <1>2, <1>4 DEF AttachScopes
<1>6. v \in Nat
  BY <1>3, <1>4, SeedTypes
<1>7. /\ seeded' \in [Families -> [Seeds -> Nat]]
      /\ \A g \in Families, s \in Seeds : seeded'[g][s] = IF g = "links" /\ s = s0 THEN v ELSE seeded[g][s]
  BY <1>3, <1>5, <1>6, SeedTypes
<1>8. PICK r : r = [start[p] EXCEPT !.half = 0, !.inherits = {}]
  OBVIOUS
<1>9. r \in StartRecord /\ r.state = start[p].state /\ r.at = start[p].at /\ r.todo = start[p].todo /\ r.half = 0
  BY <1>3, <1>8, StartRecordIs
<1>10. start' = [start EXCEPT ![p] = r]
  BY <1>8 DEF AttachScopes
<1>11. start' \in [Starts -> StartRecord] /\ \A o \in Starts : start'[o] = IF o = p THEN r ELSE start[o]
  BY <1>9, <1>10, SeedTypes
<1> QED BY <1>1, <1>2, <1>3, <1>4, <1>7, <1>9, <1>11

LEMMA AttachScopesKeeps ==
  ASSUME SeedRows, NEW p \in Starts, AttachScopes(p)
  PROVE  SeedRows'
<1>1. /\ UNCHANGED <<removed, together>>
      /\ seeded' \in [Families -> [Seeds -> Nat]] /\ start' \in [Starts -> StartRecord]
      /\ \A g \in Families, s \in Seeds : /\ g # "links" => seeded'[g][s] = seeded[g][s]
                                          /\ g = "links" => seeded'[g][s] \in {1, seeded[g][s]}
      /\ \A o \in Starts : /\ start'[o].state = start[o].state /\ start'[o].at = start[o].at
                           /\ start'[o].todo = start[o].todo
  BY AttachScopesMoves
<1>2. Removals' = Removals /\ \A o : Lost(o)' = Lost(o)
  BY <1>1 DEF Removals, Lost
<1>3. SeedingTypeOK'
  <2>1. ASSUME NEW g \in UniqueFamilies, NEW s \in Seeds PROVE seeded'[g][s] <= 1
    <3>1. g \in Families
      BY PlanFacts DEF UniqueFamilies
    <3>2. seeded[g][s] <= 1
      BY DEF SeedRows, SeedingTypeOK
    <3> QED BY <1>1, <3>1, <3>2
  <2> QED BY <1>1, <2>1 DEF SeedRows, SeedingTypeOK
<1>4. SeedStarts'
  BY <1>1 DEF SeedRows, SeedStarts
<1>5. ASSUME NEW g \in Families, g # "links" PROVE (Present(g)' = Present(g)) /\ (LeftHalfDone(g)' <=> LeftHalfDone(g))
  BY <1>1, <1>5 DEF Present, LeftHalfDone
<1>6. \A j \in 1..11 : Plan[j] \in Families /\ Plan[j] # "links"
  BY PlanFacts
<1>7. ASSUME NEW g \in Families, g # "links", NEW s \in Seeds PROVE Excused(g, s)' <=> Excused(g, s)
  BY <1>1, <1>2, <1>5, <1>7 DEF Excused
<1>8. SeedPast'
  <2> SUFFICES ASSUME NEW o \in Starts, NEW j \in 1..11, NEW s \in Seeds, Past(o, j, s)'
               PROVE  SeedDealt(o, Plan[j], s)'
    BY DEF SeedPast
  <2>1. SeedDealt(o, Plan[j], s)
    BY <1>1 DEF SeedRows, SeedPast, Past, Running
  <2> QED BY <1>1, <1>2, <1>6, <1>7, <2>1 DEF SeedDealt
<1>9. SeedHalf'
  BY <1>1, <1>2, <1>6 DEF SeedRows, SeedHalf, Running
<1>10. SeedFound'
  <2>1. {"actions", "flows", "configs", "executions"} \subseteq Families \ {"links"}
    BY PlanFacts
  <2> QED BY <1>1, <1>2, <1>5, <1>7, <2>1 DEF SeedRows, SeedFound, FlowsBegun
<1> QED BY <1>3, <1>4, <1>8, <1>9, <1>10 DEF SeedRows

\* A run moves on without touching rows or scopes.
LEMMA LinksMove ==
  ASSUME SeedInv, SeedRows', NEW p \in Starts, UNCHANGED <<seeded, removed>>,
         \A o \in Starts : o # p => start'[o] = start[o],
         start'[p].half = start[p].half, start'[p].inherits = start[p].inherits,
         start'[p].state # "new", start[p].at \in 0..12,
         start[p].half # 0 => start[p].state = "running" /\ start'[p].state \in {"running", "dead"}
                              /\ start'[p].at \in start[p].at..12
  PROVE  SeedLinks'
<1>1. Removals' = Removals
  BY DEF Removals
<1>2. ASSUME NEW s \in Seeds, ScopesUnattached(s) PROVE ScopesUnattached(s)'
  <2>1. CASE \E o \in Starts : start[o].state \in {"running", "dead"} /\ start[o].half = s
    <3>1. PICK o \in Starts : start[o].state \in {"running", "dead"} /\ start[o].half = s
      BY <2>1
    <3>2. s # 0
      BY DEF Seeds
    <3>3. start'[o].state \in {"running", "dead"} /\ start'[o].half = s
      BY <3>1, <3>2
    <3> QED BY <3>3 DEF ScopesUnattached
  <2> QED BY <1>1, <1>2, <2>1 DEF ScopesUnattached
<1>3. ASSUME NEW o \in Starts, start'[o].half # 0, start'[o].state = "running"
      PROVE  start'[o].at >= 7 /\ \A t \in Seeds \ start'[o].inherits : <<"scopes", t>> \in removed[o]
  <2>1. start[o].half # 0 /\ start[o].state = "running" /\ start'[o].inherits = start[o].inherits
    BY <1>3
  <2>2. start[o].at >= 7 /\ \A t \in Seeds \ start[o].inherits : <<"scopes", t>> \in removed[o]
    BY <2>1 DEF SeedInv, SeedLinks, Running
  <2>3. start'[o].at >= 7
    BY <1>3, <2>1, <2>2
  <2> QED BY <2>1, <2>2, <2>3
<1>4. \A o \in Starts : start'[o].state = "new" => start'[o].half = 0
  BY DEF SeedInv, SeedLinks
<1> QED BY <1>2, <1>3, <1>4 DEF SeedInv, SeedLinks, Running

LEMMA LinksRuns ==
  ASSUME SeedInv, SeedRows', NEW p \in Starts, Begin(p) \/ NextFamily(p) \/ Serve(p) \/ Die(p)
  PROVE  SeedLinks'
<1>1. start[p] \in StartRecord /\ start[p].at \in 0..12
  BY SeedTypes DEF SeedInv
<1>2. UNCHANGED <<seeded, removed>>
  BY DEF Begin, NextFamily, Serve, Die
<1>3. CASE Begin(p)
  <2>1. start' = [start EXCEPT ![p] = [start[p] EXCEPT !.state = "running", !.at = 1, !.todo = Seeds]]
    BY <1>3 DEF Begin
  <2>2. /\ \A o \in Starts : o # p => start'[o] = start[o]
        /\ start'[p] = [start[p] EXCEPT !.state = "running", !.at = 1, !.todo = Seeds]
    BY <2>1, SeedTypes DEF SeedInv
  <2>3. /\ start'[p].half = start[p].half /\ start'[p].inherits = start[p].inherits /\ start'[p].state = "running"
    BY <1>1, <2>2, StartRecordIs
  <2>4. start[p].half = 0
    BY <1>3 DEF Begin, SeedInv, SeedLinks
  <2> QED BY <1>1, <1>2, <2>2, <2>3, <2>4, LinksMove
<1>4. CASE NextFamily(p) \/ Serve(p)
  <2>1. start[p].half = 0 /\ Running(p)
    BY <1>4 DEF NextFamily, Serve
  <2>2. PICK r : /\ start' = [start EXCEPT ![p] = r]
                 /\ r.half = start[p].half /\ r.inherits = start[p].inherits /\ r.state # "new"
    <3>1. CASE Serve(p)
      <4>1. start' = [start EXCEPT ![p] = [start[p] EXCEPT !.state = "serving", !.at = Len(Plan) + 1]]
        BY <3>1 DEF Serve
      <4>2. PICK r : r = [start[p] EXCEPT !.state = "serving", !.at = Len(Plan) + 1]
        OBVIOUS
      <4>3. r.half = start[p].half /\ r.inherits = start[p].inherits /\ r.state # "new"
        BY <1>1, <4>2, StartRecordIs
      <4> QED BY <4>1, <4>2, <4>3
    <3>2. CASE NextFamily(p)
      <4>0. PICK i : i = start[p].at + 1
        OBVIOUS
      <4>1. CASE SkipsFlows(i)
        <5>1. start' = [start EXCEPT ![p] = [start[p] EXCEPT !.at = i + 2]]
          BY <3>2, <4>0, <4>1 DEF NextFamily
        <5>2. PICK r : r = [start[p] EXCEPT !.at = i + 2]
          OBVIOUS
        <5>3. r.half = start[p].half /\ r.inherits = start[p].inherits /\ r.state # "new"
          BY <1>1, <2>1, <5>2, StartRecordIs DEF Running
        <5> QED BY <5>1, <5>2, <5>3
      <4>2. CASE ~SkipsFlows(i)
        <5>1. start' = [start EXCEPT ![p] = [start[p] EXCEPT !.at = i, !.todo = ToWrite(Plan[i])]]
          BY <3>2, <4>0, <4>2 DEF NextFamily
        <5>2. PICK r : r = [start[p] EXCEPT !.at = i, !.todo = ToWrite(Plan[i])]
          OBVIOUS
        <5>3. r.half = start[p].half /\ r.inherits = start[p].inherits /\ r.state # "new"
          BY <1>1, <2>1, <5>2, StartRecordIs DEF Running
        <5> QED BY <5>1, <5>2, <5>3
      <4> QED BY <4>1, <4>2
    <3> QED BY <1>4, <3>1, <3>2
  <2>3. (\A o \in Starts : o # p => start'[o] = start[o]) /\ start'[p] = r
    BY <2>2, SeedTypes DEF SeedInv
  <2> QED BY <1>1, <1>2, <2>1, <2>2, <2>3, LinksMove
<1>5. CASE Die(p)
  <2>1. start' = [start EXCEPT ![p] = [start[p] EXCEPT !.state = "dead"]] /\ Running(p)
    BY <1>5 DEF Die
  <2>2. /\ \A o \in Starts : o # p => start'[o] = start[o]
        /\ start'[p] = [start[p] EXCEPT !.state = "dead"]
    BY <2>1, SeedTypes DEF SeedInv
  <2>3. /\ start'[p].half = start[p].half /\ start'[p].inherits = start[p].inherits /\ start'[p].state = "dead"
        /\ start'[p].at = start[p].at
    BY <1>1, <2>2, StartRecordIs
  <2>4. start'[p].at \in start[p].at..12
    BY <1>1, <2>3
  <2> QED BY <1>1, <1>2, <2>1, <2>2, <2>3, <2>4, LinksMove DEF Running
<1> QED BY <1>3, <1>4, <1>5

LEMMA LinksWriteSeed ==
  ASSUME SeedInv, NEW p \in Starts, WriteSeed(p)
  PROVE  SeedLinks'
<1>0. SeedRows /\ SeedLinks
  BY DEF SeedInv
<1>1. Running(p) /\ start[p].half = 0 /\ start[p].at \in 1..11 /\ UNCHANGED <<removed, together>>
  BY <1>0, WriteSeedWrites
<1>2. PICK f : f = Plan[start[p].at]
  OBVIOUS
<1>3. PICK s0 \in start[p].todo : Writes(p, f, s0)
  BY <1>0, <1>2, WriteSeedWrites
<1>4. s0 \in Seeds /\ f \in Families /\ {"clients", "links", "scopes"} \subseteq Families /\ f # "links"
  BY <1>0, <1>1, <1>2, SeedTypes, PlanFacts
<1>5. \A g \in Families, s \in Seeds :
        /\ seeded[g][s] \in Nat
        /\ g # f \/ s # s0 => seeded'[g][s] = seeded[g][s]
  BY <1>0, <1>3, <1>4, SeedTypes DEF Writes
<1>6. \A o \in Starts : /\ start'[o].state = start[o].state /\ start'[o].at = start[o].at
                        /\ start'[o].half = IF o = p /\ f = "clients" /\ seeded["clients"][s0] = 0
                                            THEN s0 ELSE start[o].half
                        /\ start'[o].inherits = IF o = p /\ f = "clients" /\ seeded["clients"][s0] = 0
                                                THEN Present("scopes") ELSE start[o].inherits
  BY <1>3 DEF Writes
<1>7. Removals' = Removals
  BY <1>1 DEF Removals
<1>8. ASSUME NEW s \in Seeds, ScopesUnattached(s) PROVE ScopesUnattached(s)'
  <2>1. CASE \E o \in Starts : start[o].state \in {"running", "dead"} /\ start[o].half = s
    <3>1. PICK o \in Starts : start[o].state \in {"running", "dead"} /\ start[o].half = s
      BY <2>1
    <3>2. o # p
      BY <1>1, <3>1 DEF Seeds
    <3>3. start'[o].state \in {"running", "dead"} /\ start'[o].half = s
      BY <1>6, <3>1, <3>2
    <3> QED BY <3>3 DEF ScopesUnattached
  <2> QED BY <1>7, <1>8, <2>1 DEF ScopesUnattached
<1>9. ASSUME NEW s \in Seeds, seeded'["clients"][s] > 0 PROVE seeded'["links"][s] > 0 \/ ScopesUnattached(s)'
  <2>1. CASE seeded["clients"][s] > 0
    <3>1. seeded["links"][s] > 0 \/ ScopesUnattached(s)
      BY <1>0, <2>1 DEF SeedLinks
    <3> QED BY <1>4, <1>5, <1>8, <3>1
  <2>2. CASE ~(seeded["clients"][s] > 0)
    <3>1. f = "clients" /\ s = s0 /\ seeded["clients"][s0] = 0
      BY <1>4, <1>5, <1>9, <2>2
    <3>2. start'[p].half = s /\ start'[p].state = "running"
      BY <1>1, <1>6, <3>1 DEF Running
    <3> QED BY <3>2 DEF ScopesUnattached
  <2> QED BY <2>1, <2>2
<1>10. ASSUME NEW o \in Starts, start'[o].half # 0, start'[o].state = "running"
       PROVE  start'[o].at >= 7 /\ \A t \in Seeds \ start'[o].inherits : <<"scopes", t>> \in removed[o]
  <2>1. CASE o = p /\ f = "clients" /\ seeded["clients"][s0] = 0
    <3>1. start[p].at = 7
      <4>1. 7 \in 1..11 /\ Plan[7] = Plan[start[p].at]
        BY <1>2, <2>1, PlanFacts
      <4> QED BY <1>1, <4>1, PlanIsInjective
    <3>2. start'[o].inherits = Present("scopes") /\ start'[o].at = start[p].at
      BY <1>6, <2>1
    <3>3. ASSUME NEW t \in Seeds \ Present("scopes") PROVE <<"scopes", t>> \in removed[o]
      <4>1. Past(p, 1, t) /\ Plan[1] = "scopes"
        BY <1>1, <3>1, PlanFacts DEF Past
      <4>2. SeedDealt(p, "scopes", t)
        BY <1>0, <4>1 DEF SeedRows, SeedPast
      <4>3. <<"scopes", t>> \in Lost(p)
        BY <4>2 DEF SeedDealt, GuardedFamilies, Present
      <4> QED BY <1>0, <2>1, <4>3, LostConfigs
    <3> QED BY <3>1, <3>2, <3>3
  <2>2. CASE ~(o = p /\ f = "clients" /\ seeded["clients"][s0] = 0)
    <3>1. /\ start[o].half # 0 /\ start[o].state = "running" /\ start'[o].at = start[o].at
          /\ start'[o].inherits = start[o].inherits
      BY <1>6, <1>10, <2>2
    <3> QED BY <1>0, <3>1 DEF SeedLinks, Running
  <2> QED BY <2>1, <2>2
<1>11. \A o \in Starts : start'[o].state = "new" => start'[o].half = 0
  BY <1>0, <1>1, <1>6 DEF SeedLinks, Running
<1> QED BY <1>1, <1>9, <1>10, <1>11 DEF SeedLinks, Running

LEMMA LinksAttach ==
  ASSUME SeedInv, NEW p \in Starts, AttachScopes(p)
  PROVE  SeedLinks'
<1>0. SeedRows /\ SeedLinks
  BY DEF SeedInv
<1>1. PICK s0 : s0 = start[p].half
  OBVIOUS
<1>2. /\ s0 \in Seeds /\ s0 # 0 /\ Running(p) /\ UNCHANGED <<removed, together>>
      /\ \A g \in Families, s \in Seeds :
           seeded'[g][s] = IF g = "links" /\ s = s0 /\ start[p].inherits \cap Present("scopes") = Seeds
                           THEN 1 ELSE seeded[g][s]
      /\ \A o \in Starts :
           /\ start'[o].state = start[o].state /\ start'[o].at = start[o].at
           /\ start'[o].half = IF o = p THEN 0 ELSE start[o].half
           /\ o # p => start'[o].inherits = start[o].inherits
  BY <1>0, <1>1, AttachScopesMoves DEF Seeds
<1>3. {"clients", "links", "scopes"} \subseteq Families
  BY PlanFacts
<1>4. Removals' = Removals
  BY <1>2 DEF Removals
<1>5. ASSUME NEW s \in Seeds, s # s0, ScopesUnattached(s) PROVE ScopesUnattached(s)'
  <2>1. CASE \E o \in Starts : start[o].state \in {"running", "dead"} /\ start[o].half = s
    <3>1. PICK o \in Starts : start[o].state \in {"running", "dead"} /\ start[o].half = s
      BY <2>1
    <3>2. o # p
      BY <1>1, <1>5, <3>1
    <3>3. start'[o].state \in {"running", "dead"} /\ start'[o].half = s
      BY <1>2, <3>1, <3>2
    <3> QED BY <3>3 DEF ScopesUnattached
  <2> QED BY <1>4, <1>5, <2>1 DEF ScopesUnattached
<1>6. seeded'["links"][s0] > 0 \/ ScopesUnattached(s0)'
  <2>1. CASE start[p].inherits \cap Present("scopes") = Seeds
    <3>1. seeded'["links"][s0] = 1
      BY <1>2, <1>3, <2>1
    <3> QED BY <3>1
  <2>2. CASE start[p].inherits \cap Present("scopes") # Seeds
    <3>1. PICK t \in Seeds : t \notin start[p].inherits \/ t \notin Present("scopes")
      <4>1. start[p].inherits \subseteq Seeds
        BY <1>0, SeedTypes
      <4> QED BY <2>2, <4>1
    <3>2. start[p].at >= 7 /\ \A u \in Seeds \ start[p].inherits : <<"scopes", u>> \in removed[p]
      BY <1>0, <1>1, <1>2 DEF SeedLinks
    <3>3. <<"scopes", t>> \in Removals
      <4>1. CASE t \notin start[p].inherits
        BY <3>1, <3>2, <4>1 DEF Removals
      <4>2. CASE t \notin Present("scopes")
        <5>1. Past(p, 1, t) /\ Plan[1] = "scopes"
          BY <1>0, <1>2, <3>2, SeedTypes, PlanFacts DEF Past
        <5>2. SeedDealt(p, "scopes", t)
          BY <1>0, <5>1 DEF SeedRows, SeedPast
        <5>3. <<"scopes", t>> \in Lost(p)
          BY <4>2, <5>2 DEF SeedDealt, GuardedFamilies, Present
        <5> QED BY <1>0, <5>3, LostConfigs
      <4> QED BY <3>1, <4>1, <4>2
    <3> QED BY <1>4, <3>3 DEF ScopesUnattached
  <2> QED BY <2>1, <2>2
<1>7. ASSUME NEW s \in Seeds, seeded'["clients"][s] > 0 PROVE seeded'["links"][s] > 0 \/ ScopesUnattached(s)'
  <2>1. CASE s # s0
    <3>1. seeded["clients"][s] > 0 /\ seeded'["links"][s] = seeded["links"][s]
      BY <1>2, <1>3, <1>7, <2>1
    <3>2. seeded["links"][s] > 0 \/ ScopesUnattached(s)
      BY <1>0, <3>1 DEF SeedLinks
    <3> QED BY <1>5, <2>1, <3>1, <3>2
  <2> QED BY <1>6, <2>1
<1>8. ASSUME NEW o \in Starts, start'[o].half # 0, start'[o].state = "running"
      PROVE  start'[o].at >= 7 /\ \A t \in Seeds \ start'[o].inherits : <<"scopes", t>> \in removed[o]
  <2>1. o # p /\ start[o].half # 0 /\ start[o].state = "running"
    BY <1>2, <1>8
  <2> QED BY <1>0, <1>2, <2>1 DEF SeedLinks, Running
<1>9. \A o \in Starts : start'[o].state = "new" => start'[o].half = 0
  BY <1>0, <1>2 DEF SeedLinks
<1> QED BY <1>2, <1>7, <1>8, <1>9 DEF SeedLinks, Running

LEMMA LinksRemoveSeed ==
  ASSUME SeedInv, RemoveSeed
  PROVE  SeedLinks'
<1>0. SeedRows /\ SeedLinks
  BY DEF SeedInv
<1>1. PICK f \in Removable, s0 \in Seeds : Removes(f, s0)
  BY <1>0, RemoveSeedRemoves
<1>2. /\ Removals' = Removals \cup {<<f, s0>>}
      /\ \A o \in Starts :
           /\ start'[o].state = start[o].state /\ start'[o].at = start[o].at
           /\ start'[o].half = IF f = "clients" /\ start[o].half = s0 THEN 0 ELSE start[o].half
           /\ start'[o].half # 0 => start'[o].inherits = start[o].inherits
           /\ removed[o] \subseteq removed'[o]
  BY <1>1 DEF Removes
<1>3. {"clients", "links"} \subseteq Families
  BY PlanFacts
<1>4. ASSUME NEW s \in Seeds, seeded'["clients"][s] > 0 PROVE seeded'["links"][s] > 0 \/ ScopesUnattached(s)'
  <2>0. /\ seeded["clients"][s] \in Nat /\ seeded'["clients"][s] \in Nat
        /\ seeded'["clients"][s] <= seeded["clients"][s]
    <3>1. "clients" \in Families /\ "clients" # "orphans"
      BY <1>3
    <3> QED BY <1>0, <1>1, <3>1, SeedTypes DEF Removes
  <2>1. seeded["clients"][s] > 0 /\ ~(f = "clients" /\ s = s0)
    <3>1. f = "clients" => seeded'["clients"][s0] = 0
      BY <1>1 DEF Removes
    <3> QED BY <1>4, <2>0, <3>1
  <2>2. seeded["links"][s] > 0 \/ ScopesUnattached(s)
    BY <1>0, <1>4, <2>1 DEF SeedLinks
  <2>3. CASE ScopesUnattached(s)
    <3>1. CASE \E o \in Starts : start[o].state \in {"running", "dead"} /\ start[o].half = s
      <4>1. PICK o \in Starts : start[o].state \in {"running", "dead"} /\ start[o].half = s
        BY <3>1
      <4>2. start'[o].state \in {"running", "dead"} /\ start'[o].half = s
        BY <1>2, <2>1, <4>1
      <4> QED BY <4>2 DEF ScopesUnattached
    <3> QED BY <1>2, <2>3, <3>1 DEF ScopesUnattached
  <2>4. CASE seeded["links"][s] > 0 /\ <<"links", s>> \notin Gone(f, s0)
    BY <1>1, <1>3, <2>4 DEF Removes
  <2>5. CASE <<"links", s>> \in Gone(f, s0)
    <3>1. f = "scopes" \/ (f = "links" /\ s = s0)
      BY <2>1, <2>5 DEF Gone
    <3> QED BY <1>2, <3>1 DEF ScopesUnattached
  <2> QED BY <2>2, <2>3, <2>4, <2>5
<1>5. ASSUME NEW o \in Starts, start'[o].half # 0, start'[o].state = "running"
      PROVE  start'[o].at >= 7 /\ \A t \in Seeds \ start'[o].inherits : <<"scopes", t>> \in removed'[o]
  <2>1. /\ start[o].half # 0 /\ start[o].state = "running" /\ start'[o].inherits = start[o].inherits
        /\ start'[o].at = start[o].at
    BY <1>2, <1>5
  <2> QED BY <1>0, <1>2, <2>1 DEF SeedLinks, Running
<1>6. \A o \in Starts : start'[o].state = "new" => start'[o].half = 0
  BY <1>0, <1>2 DEF SeedLinks
<1> QED BY <1>4, <1>5, <1>6 DEF SeedLinks, Running

LEMMA SeedStartHolds == SeedingInit => SeedInv
<1> SUFFICES ASSUME SeedingInit PROVE SeedInv
  OBVIOUS
<1>1. \A p \in Starts : start[p] = NewStart /\ removed[p] = {}
  BY DEF SeedingInit
<1>2. \A p \in Starts : start[p].state = "new" /\ start[p].half = 0
  BY <1>1 DEF NewStart
<1>3. \A g \in Families, s \in Seeds : seeded[g][s] = 0
  BY DEF SeedingInit
<1>4. SeedingTypeOK
  <2>1. \A g \in UniqueFamilies, s \in Seeds : seeded[g][s] <= 1
    BY <1>3, PlanFacts DEF UniqueFamilies
  <2>2. NewStart \in StartRecord
    BY StartRecordIs, RealmSeedingAssumption DEF NewStart, StartStates
  <2>3. start \in [Starts -> StartRecord]
    BY <2>2 DEF SeedingInit
  <2>4. /\ seeded \in [Families -> [Seeds -> Nat]]
        /\ removed \in [Starts -> SUBSET (Families \X Seeds)] /\ together \in BOOLEAN
    BY DEF SeedingInit
  <2> QED BY <2>1, <2>3, <2>4 DEF SeedingTypeOK
<1>5. Present("actions") = {} /\ Present("flows") = {}
  BY <1>3, PlanFacts DEF Present
<1>6. SeedRows
  BY <1>1, <1>2, <1>4, <1>5 DEF SeedRows, SeedStarts, SeedPast, SeedHalf, SeedFound, FlowsBegun, Past, Running
<1>7. SeedLinks
  BY <1>2, <1>3, PlanFacts DEF SeedLinks, Running
<1> QED BY <1>6, <1>7 DEF SeedInv

LEMMA SeedStep == SeedInv /\ [SeedingNext]_seedingVars => SeedInv'
<1> SUFFICES ASSUME SeedInv, [SeedingNext]_seedingVars PROVE SeedInv'
  OBVIOUS
<1>0. SeedRows /\ SeedLinks
  BY DEF SeedInv
<1>1. CASE UNCHANGED seedingVars
  <2>1. UNCHANGED <<seeded, start, removed, together>>
    BY <1>1 DEF seedingVars
  <2>2. /\ Removals' = Removals /\ \A o : Lost(o)' = Lost(o)
        /\ \A g : (LeftHalfDone(g)' <=> LeftHalfDone(g)) /\ Present(g)' = Present(g)
    BY <2>1 DEF Removals, LeftHalfDone, Present, Lost
  <2>3. \A g, s : Excused(g, s)' <=> Excused(g, s)
    BY <2>1, <2>2 DEF Excused
  <2>4. SeedPast'
    BY <1>0, <2>1, <2>2, <2>3 DEF SeedRows, SeedPast, Past, Running, SeedDealt
  <2>5. SeedHalf' /\ SeedFound'
    BY <1>0, <2>1, <2>2, <2>3 DEF SeedRows, SeedHalf, SeedFound, FlowsBegun, Running
  <2>6. SeedLinks'
    <3>1. \A s : ScopesUnattached(s)' <=> ScopesUnattached(s)
      BY <2>1, <2>2 DEF ScopesUnattached
    <3> QED BY <1>0, <2>1, <3>1 DEF SeedLinks, Running
  <2> QED BY <1>0, <2>1, <2>4, <2>5, <2>6 DEF SeedInv, SeedRows, SeedingTypeOK, SeedStarts
<1>2. CASE RemoveSeed
  BY <1>0, <1>2, RemoveSeedKeeps, LinksRemoveSeed DEF SeedInv
<1>3. ASSUME NEW p \in Starts,
             Begin(p) \/ NextFamily(p) \/ WriteSeed(p) \/ AttachScopes(p) \/ Serve(p) \/ Die(p)
      PROVE  SeedInv'
  <2>1. CASE Begin(p)
    BY <1>0, <2>1, SeedBeginKeeps, LinksRuns DEF SeedInv
  <2>2. CASE NextFamily(p)
    BY <1>0, <2>2, NextFamilyKeeps, LinksRuns DEF SeedInv
  <2>3. CASE WriteSeed(p)
    BY <1>0, <2>3, WriteSeedKeeps, LinksWriteSeed DEF SeedInv
  <2>4. CASE AttachScopes(p)
    BY <1>0, <2>4, AttachScopesKeeps, LinksAttach DEF SeedInv
  <2>5. CASE Serve(p) \/ Die(p)
    BY <1>0, <2>5, SeedServeDieKeep, LinksRuns DEF SeedInv
  <2> QED BY <1>3, <2>1, <2>2, <2>3, <2>4, <2>5
<1> QED BY <1>1, <1>2, <1>3 DEF SeedingNext

\* EnsureMaster: every variable keeps its type, and no table with a unique constraint
\* ever holds a seed twice, however many processes start together.
THEOREM SeedingTypeCorrect == SeedingSpec => []SeedingTypeOK
<1>1. SeedInv => SeedingTypeOK
  BY DEF SeedInv, SeedRows
<1> QED BY <1>1, SeedStartHolds, SeedStep, PTL DEF SeedingSpec

\* A step that ends a run well leaves rows and history alone.
LEMMA ServedMeans ==
  ASSUME SeedRows, [SeedingNext]_seedingVars, NEW p \in Starts, Running(p), start'[p].state = "serving"
  PROVE  start[p].todo = {} /\ start[p].at = 11
<1>1. start[p].state = "running" /\ \A o \in Starts : start[o] \in StartRecord
  BY SeedTypes DEF Running
<1>2. CASE UNCHANGED seedingVars
  BY <1>1, <1>2 DEF seedingVars
<1>3. CASE RemoveSeed
  BY <1>1, <1>3, RemoveSeedRemoves DEF Removes
<1>4. ASSUME NEW o \in Starts, Begin(o) \/ NextFamily(o) \/ WriteSeed(o) \/ AttachScopes(o) \/ Die(o)
      PROVE  start'[p].state \in {"running", "dead"}
  <2>1. CASE Begin(o)
    <3>1. start' = [start EXCEPT ![o] = [start[o] EXCEPT !.state = "running", !.at = 1, !.todo = Seeds]]
      BY <2>1 DEF Begin
    <3>2. start'[p].state = "running"
      BY <1>1, <3>1, SeedTypes, StartRecordIs
    <3> QED BY <3>2
  <2>2. CASE NextFamily(o)
    <3>0. PICK i : i = start[o].at + 1
      OBVIOUS
    <3>1. CASE SkipsFlows(i)
      <4>1. start' = [start EXCEPT ![o] = [start[o] EXCEPT !.at = i + 2]]
        BY <2>2, <3>0, <3>1 DEF NextFamily
      <4> QED BY <1>1, <4>1, SeedTypes, StartRecordIs
    <3>2. CASE ~SkipsFlows(i)
      <4>1. start' = [start EXCEPT ![o] = [start[o] EXCEPT !.at = i, !.todo = ToWrite(Plan[i])]]
        BY <2>2, <3>0, <3>2 DEF NextFamily
      <4> QED BY <1>1, <4>1, SeedTypes, StartRecordIs
    <3> QED BY <3>1, <3>2
  <2>3. CASE WriteSeed(o)
    <3>1. PICK s \in start[o].todo : Writes(o, Plan[start[o].at], s)
      BY <2>3, WriteSeedWrites
    <3> QED BY <1>1, <3>1 DEF Writes
  <2>4. CASE AttachScopes(o)
    BY <1>1, <2>4, AttachScopesMoves
  <2>5. CASE Die(o)
    BY <1>1, <2>5, SeedTypes, StartRecordIs DEF Die
  <2> QED BY <1>4, <2>1, <2>2, <2>3, <2>4, <2>5
<1>5. ASSUME NEW o \in Starts, Serve(o) PROVE start[p].todo = {} /\ start[p].at = 11
  BY <1>1, <1>5, SeedTypes, PlanFacts, StartRecordIs DEF Serve
<1> QED BY <1>2, <1>3, <1>4, <1>5 DEF SeedingNext

LEMMA ServedIsComplete ==
  ASSUME SeedInv, [SeedingNext]_seedingVars, NEW p \in Starts, Running(p), start'[p].state = "serving",
         NEW f \in Families \ {"orphans"}, NEW s \in Seeds
  PROVE  \/ seeded[f][s] > 0
         \/ <<f, s>> \in Lost(p)
         \/ f \in GuardedFamilies \cup {"configs"} /\ <<f, s>> \in Removals
         \/ f \in GuardedFamilies /\ LeftHalfDone(f)
         \/ f = "links" /\ ScopesUnattached(s)
<1>0. SeedRows /\ SeedLinks
  BY DEF SeedInv
<1>1. start[p].todo = {} /\ start[p].at = 11
  BY <1>0, ServedMeans
<1>2. ASSUME NEW j \in 1..11 PROVE SeedDealt(p, Plan[j], s)
  <2>1. Past(p, j, s)
    BY <1>1 DEF Past
  <2> QED BY <1>0, <2>1 DEF SeedRows, SeedPast
<1>3. CASE f # "links"
  <2>1. PICK j \in 1..11 : f = Plan[j]
    BY <1>3, PlanFacts
  <2> QED BY <1>2, <2>1 DEF SeedDealt, Excused
<1>4. CASE f = "links"
  <2>1. SeedDealt(p, "clients", s)
    BY <1>2, PlanFacts
  <2>2. CASE seeded["clients"][s] > 0
    BY <1>0, <1>4, <2>2 DEF SeedLinks
  <2>3. CASE <<"clients", s>> \in Lost(p)
    <3>1. PICK e \in removed[p] : <<"clients", s>> \in Gone(e[1], e[2])
      BY <2>3 DEF Lost
    <3>2. PICK g \in Removable, t \in Seeds : e = <<g, t>>
      BY <1>0 DEF SeedRows, SeedStarts
    <3>3. g = "clients" /\ t = s
      BY <3>1, <3>2 DEF Gone
    <3>4. <<"links", s>> \in Gone("clients", s)
      BY DEF Gone
    <3>5. <<"links", s>> \in Gone(e[1], e[2])
      BY <3>2, <3>3, <3>4
    <3> QED BY <1>4, <3>5 DEF Lost
  <2> QED BY <2>1, <2>2, <2>3 DEF SeedDealt, GuardedFamilies
<1> QED BY <1>3, <1>4

\* EnsureMaster "converges": whatever died before it, ran beside it or was deleted
\* meanwhile, a run that comes to serve leaves every seed in place, but for the
\* families that it skips because somebody began them and for the scopes of a client
\* that somebody created and left without.
THEOREM StartsConverge == SeedingSpec => StartConverges
<1>1. SeedInv /\ [SeedingNext]_seedingVars =>
        [\A p \in Starts :
           Running(p) /\ start'[p].state = "serving" =>
             \A f \in Families \ {"orphans"}, s \in Seeds :
               \/ seeded[f][s] > 0
               \/ <<f, s>> \in Lost(p)
               \/ f \in GuardedFamilies \cup {"configs"} /\ <<f, s>> \in Removals
               \/ f \in GuardedFamilies /\ LeftHalfDone(f)
               \/ f = "links" /\ ScopesUnattached(s)]_seedingVars
  BY ServedIsComplete
<1> QED BY <1>1, SeedStartHolds, SeedStep, PTL DEF SeedingSpec, StartConverges

-----------------------------------------------------------------------------
(* One run at a time writes no seed twice *)

\* A run that died where the next one writes the configurations again.
DiedInFlows == \E p \in Starts : start[p].state = "dead" /\ start[p].at \in {4, 5}

\* The only run under way, if there is one, is at p.
OneRun == \A p, o \in Starts : Running(p) /\ Running(o) => p = o

\* What a run has yet to write is not there.
WritesFresh ==
  \A p \in Starts : Running(p) =>
    /\ start[p].at \in {2, 3, 5, 6} => \A s \in start[p].todo : seeded[Plan[start[p].at]][s] = 0
    /\ start[p].at = 4 => DiedInFlows \/ \A s \in start[p].todo : seeded["configs"][s] = 0
    /\ start[p].at \in {4, 5} => \A s \in Seeds : seeded["executions"][s] = 0
    /\ start[p].at = 4 => ~FlowsBegun
    /\ start[p].at = 5 => \A s \in Seeds \ start[p].todo : seeded["flows"][s] > 0
    /\ start[p].at = 6 => FlowsBegun

\* Executions come after flows, and flows after configurations.
FlowsInOrder ==
  /\ \A s \in Seeds : seeded["executions"][s] > 0 => FlowsBegun
  /\ \A s \in Seeds : seeded["configs"][s] > 0 =>
       FlowsBegun \/ \E p \in Starts : start[p].state \in {"running", "dead"} /\ start[p].at \in {4, 5}

Alone == together \/ (OneRun /\ WritesFresh /\ FlowsInOrder)

SingleRows ==
  /\ \A f \in Families \ {"orphans"}, s \in Seeds :
       seeded[f][s] <= 1 \/ together \/ (f = "configs" /\ DiedInFlows)
  /\ \A s \in Seeds : seeded["orphans"][s] = 0 \/ <<"clients", s>> \in Removals

\* A step of p that writes nothing and starts no second run.
LEMMA AloneMoveKeeps ==
  ASSUME SeedRows, Alone, SingleRows, NEW p \in Starts, NEW r \in StartRecord,
         start' = [start EXCEPT ![p] = r], UNCHANGED <<seeded, removed>>, together => together',
         start[p].state # "dead",
         ~together /\ ~together' =>
           /\ r.state = "running" => \A o \in Starts : Running(o) => o = p
           /\ start[p].state \in {"running", "dead"} /\ start[p].at \in {4, 5}
                => FlowsBegun \/ (r.state \in {"running", "dead"} /\ r.at \in {4, 5})
           /\ r.state = "running" =>
                /\ r.at \in {2, 3, 5, 6} => \A s \in r.todo : seeded[Plan[r.at]][s] = 0
                /\ r.at = 4 => DiedInFlows \/ \A s \in r.todo : seeded["configs"][s] = 0
                /\ r.at \in {4, 5} => \A s \in Seeds : seeded["executions"][s] = 0
                /\ r.at = 4 => ~FlowsBegun
                /\ r.at = 5 => \A s \in Seeds \ r.todo : seeded["flows"][s] > 0
                /\ r.at = 6 => FlowsBegun
  PROVE  Alone' /\ SingleRows'
<1>1. \A o \in Starts : start'[o] = IF o = p THEN r ELSE start[o]
  BY SeedTypes
<1>2. DiedInFlows => DiedInFlows'
  BY <1>1 DEF DiedInFlows
<1>3. FlowsBegun' <=> FlowsBegun
  BY DEF FlowsBegun, Present
<1>4. SingleRows'
  <2>1. Removals' = Removals
    BY DEF Removals
  <2> QED BY <1>2, <2>1 DEF SingleRows
<1>5. ASSUME ~together' PROVE OneRun' /\ WritesFresh' /\ FlowsInOrder'
  <2>0. ~together /\ OneRun /\ WritesFresh /\ FlowsInOrder
    BY <1>5 DEF Alone
  <2>1. OneRun'
    BY <1>1, <1>5, <2>0 DEF OneRun, Running
  <2>2. ASSUME NEW o \in Starts, Running(o)'
        PROVE  /\ start'[o].at \in {2, 3, 5, 6} => \A s \in start'[o].todo : seeded[Plan[start'[o].at]][s] = 0
               /\ start'[o].at = 4 => DiedInFlows' \/ \A s \in start'[o].todo : seeded["configs"][s] = 0
               /\ start'[o].at \in {4, 5} => \A s \in Seeds : seeded["executions"][s] = 0
               /\ start'[o].at = 4 => ~FlowsBegun
               /\ start'[o].at = 5 => \A s \in Seeds \ start'[o].todo : seeded["flows"][s] > 0
               /\ start'[o].at = 6 => FlowsBegun
    <3>1. CASE o = p
      BY <1>1, <1>2, <1>5, <2>0, <2>2, <3>1 DEF Running
    <3>2. CASE o # p
      BY <1>1, <1>2, <2>0, <2>2, <3>2 DEF WritesFresh, Running
    <3> QED BY <3>1, <3>2
  <2>3. WritesFresh'
    BY <1>3, <2>2 DEF WritesFresh
  <2>4. FlowsInOrder'
    BY <1>1, <1>3, <1>5, <2>0 DEF FlowsInOrder
  <2> QED BY <2>1, <2>3, <2>4
<1> QED BY <1>4, <1>5 DEF Alone

LEMMA AloneBegin ==
  ASSUME SeedRows, Alone, SingleRows, NEW p \in Starts, Begin(p)
  PROVE  Alone' /\ SingleRows'
<1> DEFINE r == [start[p] EXCEPT !.state = "running", !.at = 1, !.todo = Seeds]
<1>1. /\ start' = [start EXCEPT ![p] = r] /\ UNCHANGED <<seeded, removed>> /\ start[p].state = "new"
      /\ together' = (together \/ \E o \in Starts : Running(o))
  BY DEF Begin
<1>2. r \in StartRecord /\ r.state = "running" /\ r.at = 1
  <2>1. start[p] \in StartRecord
    BY SeedTypes
  <2>2. Seeds \in SUBSET Seeds /\ 1 \in 0..12 /\ "running" \in StartStates
    BY DEF StartStates
  <2> QED BY <2>1, <2>2, StartRecordIs
<1> HIDE DEF r
<1>3. r.at \notin {2, 3, 4, 5, 6} /\ r.at # 4 /\ r.at # 5 /\ r.at # 6
  BY <1>2
<1>4. r.at \notin {2, 3, 5, 6} /\ r.at \notin {4, 5} /\ start[p].state \notin {"running", "dead"}
  BY <1>1, <1>3
<1>5. ~together' => \A o \in Starts : Running(o) => o = p
  BY <1>1
<1> QED BY <1>1, <1>2, <1>3, <1>4, <1>5, AloneMoveKeeps

LEMMA AloneServeDie ==
  ASSUME SeedRows, Alone, SingleRows, NEW p \in Starts, Serve(p) \/ Die(p)
  PROVE  Alone' /\ SingleRows'
<1>0. UNCHANGED <<seeded, removed, together>> /\ Running(p) /\ start[p].state = "running" /\ start[p] \in StartRecord
  BY SeedTypes DEF Serve, Die, Running
<1>1. CASE Serve(p)
  <2>0. PICK n \in 0..12 : n = Len(Plan) + 1
    BY PlanFacts
  <2> DEFINE r == [start[p] EXCEPT !.state = "serving", !.at = n]
  <2>1. start' = [start EXCEPT ![p] = r] /\ start[p].at = 11
    BY <1>1, <2>0, PlanFacts DEF Serve
  <2>2. r \in StartRecord /\ r.state = "serving"
    BY <1>0, StartRecordIs DEF StartStates
  <2> HIDE DEF r
  <2>3. start[p].at \notin {4, 5} /\ r.state # "running"
    BY <2>1, <2>2
  <2> QED BY <1>0, <2>1, <2>2, <2>3, AloneMoveKeeps
<1>2. CASE Die(p)
  <2> DEFINE r == [start[p] EXCEPT !.state = "dead"]
  <2>1. start' = [start EXCEPT ![p] = r]
    BY <1>2 DEF Die
  <2>2. r \in StartRecord /\ r.state = "dead" /\ r.at = start[p].at
    BY <1>0, StartRecordIs DEF StartStates
  <2> HIDE DEF r
  <2> QED BY <1>0, <2>1, <2>2, AloneMoveKeeps
<1> QED BY <1>1, <1>2

LEMMA AloneNextFamily ==
  ASSUME SeedRows, Alone, SingleRows, NEW p \in Starts, NextFamily(p)
  PROVE  Alone' /\ SingleRows'
<1>0. PICK i : i = start[p].at + 1
  OBVIOUS
<1>1. /\ UNCHANGED <<seeded, removed, together>> /\ Running(p) /\ start[p].state = "running"
      /\ start[p].todo = {} /\ i \in 2..11 /\ start[p].at \in 1..10
  BY <1>0, PlanFacts, SeedTypes DEF NextFamily, SeedRows, SeedStarts, Running
<1>2. start[p] \in StartRecord /\ seeded \in [Families -> [Seeds -> Nat]]
  BY SeedTypes
<1>3. Seeds # {}
  BY RealmSeedingAssumption DEF Seeds
<1>4. ~together => /\ \A o \in Starts : Running(o) => o = p
                   /\ start[p].at = 5 => FlowsBegun
                   /\ start[p].at \in {4, 5} => \A s \in Seeds : seeded["executions"][s] = 0
                   /\ start[p].at = 4 => ~FlowsBegun
                   /\ FlowsInOrder
  BY <1>1, <1>3 DEF Alone, OneRun, WritesFresh, FlowsBegun, Present
<1>5. CASE SkipsFlows(i)
  <2> DEFINE r == [start[p] EXCEPT !.at = i + 2]
  <2>1. start' = [start EXCEPT ![p] = r]
    BY <1>0, <1>5 DEF NextFamily
  <2>2. i = 4 /\ FlowsBegun
    BY <1>1, <1>5, PlanFacts DEF SkipsFlows, FlowsBegun
  <2>3. r \in StartRecord /\ r.state = "running" /\ r.at = 6 /\ r.todo = {}
    BY <1>1, <1>2, <2>2, StartRecordIs DEF Running
  <2> HIDE DEF r
  <2>4. r.at \notin {4, 5} /\ r.at # 4 /\ r.at # 5 /\ start[p].at \notin {4, 5}
    BY <1>0, <1>1, <2>2, <2>3
  <2>5. \A s \in r.todo : seeded[Plan[r.at]][s] = 0
    BY <2>3
  <2> QED BY <1>1, <1>4, <2>1, <2>2, <2>3, <2>4, <2>5, AloneMoveKeeps
<1>6. CASE ~SkipsFlows(i)
  <2> DEFINE r == [start[p] EXCEPT !.at = i, !.todo = ToWrite(Plan[i])]
  <2>1. start' = [start EXCEPT ![p] = r]
    BY <1>0, <1>6 DEF NextFamily
  <2>2. ToWrite(Plan[i]) \in SUBSET Seeds
    BY DEF ToWrite
  <2>3. r \in StartRecord /\ r.state = "running" /\ r.at = i /\ r.todo = ToWrite(Plan[i])
    <3>1. i \in 0..12 /\ start[p].state = "running"
      BY <1>1 DEF Running
    <3> QED BY <1>2, <2>2, <3>1, StartRecordIs
  <2> HIDE DEF r
  <2>4. ASSUME ~together PROVE r.at \in {2, 3, 5, 6} => \A s \in r.todo : seeded[Plan[r.at]][s] = 0
    <3>0. {"actions", "components", "flows", "executions"} \subseteq Families
      BY PlanFacts
    <3>1. CASE i = 2
      BY <1>2, <2>3, <3>0, <3>1, PlanFacts DEF ToWrite, Present
    <3>2. CASE i = 3
      BY <1>2, <2>3, <3>0, <3>2, PlanFacts DEF ToWrite, Present
    <3>3. CASE i = 5
      <4>1. ~FlowsBegun
        BY <1>0, <1>1, <1>4, <2>4, <3>3
      <4> QED BY <1>2, <2>2, <2>3, <3>0, <3>3, <4>1, PlanFacts DEF FlowsBegun, Present
    <3>4. CASE i = 6
      <4>1. \A s \in Seeds : seeded["executions"][s] = 0
        BY <1>0, <1>1, <1>4, <2>4, <3>4
      <4> QED BY <2>2, <2>3, <3>4, <4>1, PlanFacts
    <3> QED BY <2>3, <3>1, <3>2, <3>3, <3>4
  <2>5. ASSUME ~together, r.at = 4
        PROVE  /\ ~FlowsBegun /\ \A s \in Seeds : seeded["executions"][s] = 0
               /\ DiedInFlows \/ \A s \in r.todo : seeded["configs"][s] = 0
    <3>0. i = 4 /\ start[p].at = 3 /\ {"configs", "executions"} \subseteq Families
      BY <1>0, <1>1, <2>3, <2>5, PlanFacts
    <3>1. ~FlowsBegun
      BY <1>6, <3>0, PlanFacts DEF SkipsFlows, FlowsBegun
    <3>2. \A s \in Seeds : seeded["executions"][s] = 0
      BY <1>2, <1>4, <2>5, <3>0, <3>1 DEF FlowsInOrder
    <3>3. ASSUME NEW s \in Seeds, seeded["configs"][s] > 0 PROVE DiedInFlows
      BY <1>4, <2>5, <3>0, <3>1, <3>3 DEF FlowsInOrder, DiedInFlows, Running
    <3> QED BY <1>2, <2>2, <2>3, <3>0, <3>1, <3>2, <3>3
  <2>6. ASSUME ~together, r.at = 5
        PROVE  /\ \A s \in Seeds : seeded["executions"][s] = 0
               /\ \A s \in Seeds \ r.todo : seeded["flows"][s] > 0
    <3>1. start[p].at = 4 /\ r.todo = Seeds
      BY <1>0, <1>1, <2>3, <2>6, PlanFacts DEF ToWrite
    <3> QED BY <1>4, <2>6, <3>1
  <2>7. ASSUME ~together, r.at = 6 PROVE FlowsBegun
    BY <1>0, <1>1, <1>4, <2>3, <2>7
  <2>8. start[p].at \in {4, 5} /\ ~together => FlowsBegun \/ r.at \in {4, 5}
    BY <1>0, <1>1, <1>4, <2>3
  <2> QED BY <1>1, <1>4, <2>1, <2>3, <2>4, <2>5, <2>6, <2>7, <2>8, AloneMoveKeeps
<1> QED BY <1>5, <1>6

LEMMA AloneWriteSeed ==
  ASSUME SeedRows, Alone, SingleRows, NEW p \in Starts, WriteSeed(p)
  PROVE  Alone' /\ SingleRows'
<1>0. PICK i : i = start[p].at
  OBVIOUS
<1>1. Running(p) /\ i \in 1..11 /\ UNCHANGED <<removed, together>>
  BY <1>0, WriteSeedWrites
<1>2. PICK f : f = Plan[i]
  OBVIOUS
<1>3. f \in Families /\ f # "orphans" /\ {"configs", "flows", "executions", "orphans"} \subseteq Families
  BY <1>1, <1>2, PlanFacts
<1>4. PICK s0 \in start[p].todo : Writes(p, f, s0)
  BY <1>0, <1>2, WriteSeedWrites
<1>5. s0 \in Seeds /\ start[p].todo \in SUBSET Seeds
  BY SeedTypes
<1>6. \A o \in Starts : /\ start'[o].state = start[o].state /\ start'[o].at = start[o].at
                        /\ start'[o].todo = IF o = p THEN start[p].todo \ {s0} ELSE start[o].todo
  BY <1>4 DEF Writes
<1>7. \A g \in Families, s \in Seeds :
        /\ seeded[g][s] \in Nat
        /\ seeded'[g][s] = IF g = f /\ s = s0 THEN (IF f \in UniqueFamilies THEN 1 ELSE seeded[f][s0] + 1)
                           ELSE seeded[g][s]
  BY <1>3, <1>4, <1>5, SeedTypes DEF Writes
<1>8. seeded'[f][s0] > 0
  BY <1>3, <1>5, <1>7
<1>9. DiedInFlows' <=> DiedInFlows
  BY <1>6 DEF DiedInFlows
<1>10. /\ FlowsBegun => FlowsBegun'
       /\ f # "flows" => (FlowsBegun' <=> FlowsBegun)
       /\ f = "flows" => FlowsBegun'
  BY <1>3, <1>5, <1>7, <1>8 DEF FlowsBegun, Present
<1>11. SingleRows'
  <2>0. \A s \in Seeds : seeded'["orphans"][s] = 0 \/ <<"clients", s>> \in Removals'
    <3>1. Removals' = Removals
      BY <1>1 DEF Removals
    <3> QED BY <1>3, <1>7, <3>1 DEF SingleRows
  <2> SUFFICES ASSUME NEW g \in Families \ {"orphans"}, NEW s \in Seeds
               PROVE  seeded'[g][s] <= 1 \/ together \/ (g = "configs" /\ DiedInFlows)
    BY <1>1, <1>9, <2>0 DEF SingleRows
  <2>1. CASE g # f \/ s # s0
    BY <1>7, <2>1 DEF SingleRows
  <2>2. CASE g = f /\ s = s0 /\ f \in UniqueFamilies
    BY <1>7, <2>2
  <2>3. CASE g = f /\ s = s0 /\ f \notin UniqueFamilies /\ ~together
    <3>1. i \in {2, 3, 4, 5, 6}
      BY <1>1, <1>2, <2>3, PlanFacts DEF UniqueFamilies
    <3>2. seeded[f][s0] = 0 \/ (f = "configs" /\ DiedInFlows)
      <4>1. CASE i = 4
        <5>1. f = "configs" /\ start[p].at = 4
          BY <1>0, <1>2, <4>1, PlanFacts
        <5>2. DiedInFlows \/ \A t \in start[p].todo : seeded["configs"][t] = 0
          BY <1>1, <2>3, <5>1 DEF Alone, WritesFresh
        <5> QED BY <5>1, <5>2
      <4>2. CASE i \in {2, 3, 5, 6}
        BY <1>0, <1>1, <1>2, <2>3, <4>2 DEF Alone, WritesFresh
      <4> QED BY <3>1, <4>1, <4>2
    <3> QED BY <1>7, <2>3, <3>2
  <2> QED BY <2>1, <2>2, <2>3
<1>12. ASSUME ~together PROVE OneRun' /\ WritesFresh' /\ FlowsInOrder'
  <2>0. OneRun /\ WritesFresh /\ FlowsInOrder
    BY <1>12 DEF Alone
  <2>1. OneRun'
    BY <1>6, <2>0 DEF OneRun, Running
  <2>2. ASSUME NEW o \in Starts, Running(o)' PROVE o = p
    BY <1>1, <1>6, <2>0, <2>2 DEF OneRun, Running
  <2>3. start'[p].at = i /\ start'[p].todo = start[p].todo \ {s0}
    BY <1>0, <1>6
  <2>4. i \in {2, 3, 5, 6} => \A s \in start'[p].todo : seeded'[Plan[i]][s] = 0
    BY <1>0, <1>1, <1>2, <1>3, <1>5, <1>7, <2>0, <2>3 DEF WritesFresh
  <2>5. i = 4 => DiedInFlows \/ \A s \in start'[p].todo : seeded'["configs"][s] = 0
    <3>1. ASSUME i = 4, ~DiedInFlows, NEW s \in start'[p].todo PROVE seeded'["configs"][s] = 0
      <4>1. s \in start[p].todo /\ s # s0 /\ s \in Seeds
        BY <1>5, <2>3, <3>1
      <4>2. seeded["configs"][s] = 0
        BY <1>0, <1>1, <2>0, <3>1, <4>1 DEF WritesFresh
      <4> QED BY <1>3, <1>7, <4>1, <4>2
    <3> QED BY <3>1
  <2>6. i \in {4, 5} => \A s \in Seeds : seeded'["executions"][s] = 0
    <3>1. i \in {4, 5} => f # "executions"
      BY <1>2, PlanFacts
    <3> QED BY <1>0, <1>1, <1>3, <1>7, <2>0, <3>1 DEF WritesFresh
  <2>7. i = 4 => ~FlowsBegun'
    BY <1>0, <1>1, <1>2, <1>10, <2>0, PlanFacts DEF WritesFresh
  <2>8. i = 5 => \A s \in Seeds \ start'[p].todo : seeded'["flows"][s] > 0
    <3>1. ASSUME i = 5, NEW s \in Seeds \ start'[p].todo PROVE seeded'["flows"][s] > 0
      <4>1. f = "flows"
        BY <1>2, <3>1, PlanFacts
      <4>2. CASE s = s0
        BY <1>8, <4>1, <4>2
      <4>3. CASE s # s0
        BY <1>0, <1>1, <1>3, <1>7, <2>0, <2>3, <3>1, <4>3 DEF WritesFresh
      <4> QED BY <4>2, <4>3
    <3> QED BY <3>1
  <2>9. i = 6 => FlowsBegun'
    BY <1>0, <1>1, <1>10, <2>0 DEF WritesFresh
  <2>10. WritesFresh'
    BY <1>9, <2>2, <2>3, <2>4, <2>5, <2>6, <2>7, <2>8, <2>9 DEF WritesFresh
  <2>11. FlowsInOrder'
    <3>1. ASSUME NEW s \in Seeds, seeded'["executions"][s] > 0 PROVE FlowsBegun'
      <4>1. CASE f = "executions"
        <5>1. Plan[i] = Plan[6] /\ 6 \in 1..11
          BY <1>2, <4>1, PlanFacts
        <5> QED BY <1>1, <2>9, <5>1, PlanIsInjective
      <4>2. CASE f # "executions"
        BY <1>3, <1>7, <1>10, <2>0, <3>1, <4>2 DEF FlowsInOrder
      <4> QED BY <4>1, <4>2
    <3>2. ASSUME NEW s \in Seeds, seeded'["configs"][s] > 0
          PROVE  FlowsBegun' \/ \E o \in Starts : start'[o].state \in {"running", "dead"} /\ start'[o].at \in {4, 5}
      <4>1. CASE f = "configs"
        <5>1. Plan[i] = Plan[4] /\ 4 \in 1..11
          BY <1>2, <4>1, PlanFacts
        <5>2. i = 4
          BY <1>1, <5>1, PlanIsInjective
        <5> QED BY <1>1, <1>6, <2>3, <5>2 DEF Running
      <4>2. CASE f # "configs"
        BY <1>3, <1>6, <1>7, <1>10, <2>0, <3>2, <4>2 DEF FlowsInOrder
      <4> QED BY <4>1, <4>2
    <3> QED BY <3>1, <3>2 DEF FlowsInOrder
  <2> QED BY <2>1, <2>10, <2>11
<1> QED BY <1>1, <1>11, <1>12 DEF Alone

\* A step that writes nothing of the plan keeps the runs to themselves.
LEMMA AloneFewer ==
  ASSUME SeedRows, Alone, UNCHANGED together,
         \A o \in Starts : /\ start'[o].state = start[o].state /\ start'[o].at = start[o].at
                          /\ start'[o].todo = start[o].todo,
         \A j \in 1..11, s \in Seeds : seeded[Plan[j]][s] = 0 => seeded'[Plan[j]][s] = 0,
         \A g \in {"flows", "executions"}, s \in Seeds : seeded'[g][s] = seeded[g][s],
         \A s \in Seeds : seeded'["configs"][s] > 0 => seeded["configs"][s] > 0
  PROVE  Alone' /\ (DiedInFlows' <=> DiedInFlows)
<1>1. (FlowsBegun' <=> FlowsBegun) /\ (DiedInFlows' <=> DiedInFlows)
  BY DEF FlowsBegun, Present, DiedInFlows
<1>2. ASSUME ~together PROVE OneRun' /\ WritesFresh' /\ FlowsInOrder'
  <2>0. OneRun /\ WritesFresh /\ FlowsInOrder
    BY <1>2 DEF Alone
  <2>1. ASSUME NEW p \in Starts, Running(p), start[p].at \in {2, 3, 5, 6}, NEW s \in start[p].todo
        PROVE  seeded'[Plan[start[p].at]][s] = 0
    <3>1. s \in Seeds /\ start[p].at \in 1..11
      BY <2>1, SeedTypes
    <3>2. seeded[Plan[start[p].at]][s] = 0
      BY <2>0, <2>1 DEF WritesFresh
    <3> QED BY <3>1, <3>2
  <2>2. ASSUME NEW p \in Starts, Running(p), start[p].at = 4, ~DiedInFlows, NEW s \in start[p].todo
        PROVE  seeded'["configs"][s] = 0
    <3>1. s \in Seeds /\ 4 \in 1..11 /\ Plan[4] = "configs"
      BY SeedTypes, PlanFacts
    <3>2. seeded["configs"][s] = 0
      BY <2>0, <2>2 DEF WritesFresh
    <3> QED BY <3>1, <3>2
  <2>3. \A p \in Starts : start[p].todo \in SUBSET Seeds
    BY SeedTypes
  <2>4. WritesFresh'
    BY <1>1, <2>0, <2>1, <2>2, <2>3 DEF WritesFresh, Running
  <2>5. OneRun' /\ FlowsInOrder'
    BY <1>1, <2>0 DEF OneRun, FlowsInOrder, Running
  <2> QED BY <2>4, <2>5
<1> QED BY <1>1, <1>2 DEF Alone

LEMMA AloneAttach ==
  ASSUME SeedRows, Alone, SingleRows, NEW p \in Starts, AttachScopes(p)
  PROVE  Alone' /\ SingleRows'
<1>1. /\ UNCHANGED <<removed, together>>
      /\ \A g \in Families, s \in Seeds : /\ g # "links" => seeded'[g][s] = seeded[g][s]
                                          /\ g = "links" => seeded'[g][s] \in {1, seeded[g][s]}
      /\ \A o \in Starts : /\ start'[o].state = start[o].state /\ start'[o].at = start[o].at
                           /\ start'[o].todo = start[o].todo
  BY AttachScopesMoves
<1>2. /\ \A j \in 1..11 : Plan[j] \in Families /\ Plan[j] # "links"
      /\ {"configs", "flows", "executions", "orphans"} \subseteq Families \ {"links"}
  BY PlanFacts
<1>3. Alone' /\ (DiedInFlows' <=> DiedInFlows)
  BY <1>1, <1>2, AloneFewer
<1>4. Removals' = Removals
  BY <1>1 DEF Removals
<1>5. ASSUME NEW g \in Families \ {"orphans"}, NEW s \in Seeds
      PROVE  seeded'[g][s] <= 1 \/ together \/ (g = "configs" /\ DiedInFlows)
  BY <1>1 DEF SingleRows
<1> QED BY <1>1, <1>2, <1>3, <1>4, <1>5 DEF SingleRows

LEMMA AloneRemoveSeed ==
  ASSUME SeedRows, Alone, SingleRows, RemoveSeed
  PROVE  Alone' /\ SingleRows'
<1>1. PICK f \in Removable, s0 \in Seeds : Removes(f, s0)
  BY RemoveSeedRemoves
<1>2. /\ UNCHANGED together
      /\ \A o \in Starts : /\ start'[o].state = start[o].state /\ start'[o].at = start[o].at
                           /\ start'[o].todo = start[o].todo
  BY <1>1 DEF Removes
<1>3. /\ {"configs", "flows", "executions"} \subseteq Families \ {"orphans"}
      /\ \A j \in 1..11 : Plan[j] \in Families \ {"orphans"}
  BY PlanFacts
<1>4. ASSUME NEW g \in Families \ {"orphans"}, NEW s \in Seeds
      PROVE  seeded[g][s] \in Nat /\ seeded'[g][s] \in Nat /\ seeded'[g][s] <= seeded[g][s]
  BY <1>1, SeedTypes DEF Removes
<1>5. ASSUME NEW g \in {"flows", "executions"}, NEW s \in Seeds PROVE seeded'[g][s] = seeded[g][s]
  <2>1. g # f /\ g \notin {"links", "clientRoles", "mappings", "admin"} /\ g \in Families /\ g # "orphans"
    BY PlanFacts DEF Removable
  <2>2. <<g, s>> \notin Gone(f, s0)
    BY <2>1, GoneAlone
  <2> QED BY <1>1, <2>1, <2>2 DEF Removes
<1>6. ASSUME NEW g \in Families \ {"orphans"}, NEW s \in Seeds
      PROVE  (seeded[g][s] = 0 => seeded'[g][s] = 0) /\ (seeded'[g][s] > 0 => seeded[g][s] > 0)
  BY <1>4
<1>7. Alone' /\ (DiedInFlows' <=> DiedInFlows)
  BY <1>2, <1>3, <1>5, <1>6, AloneFewer
<1>8. ASSUME NEW g \in Families \ {"orphans"}, NEW s \in Seeds
      PROVE  seeded'[g][s] <= 1 \/ together \/ (g = "configs" /\ DiedInFlows)
  <2>1. seeded[g][s] <= 1 \/ together \/ (g = "configs" /\ DiedInFlows)
    BY DEF SingleRows
  <2> QED BY <1>4, <2>1
<1>9. ASSUME NEW s \in Seeds PROVE seeded'["orphans"][s] = 0 \/ <<"clients", s>> \in Removals'
  <2>1. "orphans" \in Families
    BY PlanFacts
  <2>2. CASE f # "clients" \/ s # s0
    <3>1. seeded'["orphans"][s] = seeded["orphans"][s] /\ Removals \subseteq Removals'
      BY <1>1, <2>1, <2>2 DEF Removes
    <3> QED BY <3>1 DEF SingleRows
  <2>3. CASE f = "clients" /\ s = s0
    BY <1>1, <2>3 DEF Removes
  <2> QED BY <2>2, <2>3
<1> QED BY <1>2, <1>7, <1>8, <1>9 DEF SingleRows

LEMMA AloneStep ==
  ASSUME SeedRows, Alone, SingleRows, [SeedingNext]_seedingVars
  PROVE  Alone' /\ SingleRows'
<1>1. CASE UNCHANGED seedingVars
  <2>1. UNCHANGED <<seeded, start, removed, together>>
    BY <1>1 DEF seedingVars
  <2>2. (FlowsBegun' <=> FlowsBegun) /\ (DiedInFlows' <=> DiedInFlows) /\ Removals' = Removals
    BY <2>1 DEF FlowsBegun, Present, DiedInFlows, Removals
  <2> QED BY <2>1, <2>2 DEF Alone, SingleRows, OneRun, WritesFresh, FlowsInOrder, Running
<1>2. CASE SeedingNext
  BY <1>2, AloneBegin, AloneNextFamily, AloneWriteSeed, AloneAttach, AloneServeDie, AloneRemoveSeed DEF SeedingNext
<1> QED BY <1>1, <1>2

LEMMA AloneStart == SeedingInit => Alone /\ SingleRows
<1> SUFFICES ASSUME SeedingInit PROVE Alone /\ SingleRows
  OBVIOUS
<1>1. \A p \in Starts : start[p].state = "new"
  BY DEF SeedingInit, NewStart
<1>2. \A g \in Families, s \in Seeds : seeded[g][s] = 0
  BY DEF SeedingInit
<1>3. {"configs", "executions", "orphans"} \subseteq Families
  BY PlanFacts
<1> QED BY <1>1, <1>2, <1>3 DEF Alone, SingleRows, OneRun, WritesFresh, FlowsInOrder, Running

\* ensureComponents and its siblings, "repaired rather than duplicated": with one run
\* at a time, however many of them die and wherever, no seed gets a second row but
\* the configurations of flows that a dead run never came to write and the roles of
\* a client that was deleted.
THEOREM NothingSeededTwice == SeedingSpec => []RestartDuplicatesNothing
<1>1. ASSUME SeedInv, SingleRows PROVE RestartDuplicatesNothing
  <2>0. SeedRows
    BY <1>1 DEF SeedInv
  <2>1. ASSUME DiedInFlows
        PROVE  \E p \in Starts : start[p].state = "dead" /\ Plan[start[p].at] \in {"configs", "flows"}
    BY <2>1, PlanFacts DEF DiedInFlows
  <2>2. ASSUME NEW s \in Seeds
        PROVE  seeded["clientRoles"][s] + seeded["orphans"][s] <= 1 \/ <<"clients", s>> \in Removals
    <3>1. "clientRoles" \in UniqueFamilies /\ "clientRoles" \in Families
      BY PlanFacts DEF UniqueFamilies
    <3>2. seeded["clientRoles"][s] \in Nat /\ seeded["clientRoles"][s] <= 1
      BY <2>0, <3>1, SeedTypes DEF SeedRows, SeedingTypeOK
    <3>3. seeded["orphans"][s] = 0 \/ <<"clients", s>> \in Removals
      BY <1>1 DEF SingleRows
    <3> QED BY <3>2, <3>3
  <2> QED BY <1>1, <2>1, <2>2 DEF SingleRows, RestartDuplicatesNothing
<1>2. SeedInv /\ Alone /\ SingleRows /\ [SeedingNext]_seedingVars => SeedInv' /\ Alone' /\ SingleRows'
  <2>1. SeedInv => SeedRows
    BY DEF SeedInv
  <2> QED BY <2>1, SeedStep, AloneStep
<1> QED BY <1>1, <1>2, SeedStartHolds, AloneStart, PTL DEF SeedingSpec
-----------------------------------------------------------------------------
(* Realms and their containers *)

\* Every role of a container is in master's admin; it has no role but these.
Granted(c) == \A k \in AdminRoles : <<c, k>> \in granted
HasRoles(c, roles) == \A k \in roles : <<c, k>> \in adminRoles
OnlyRoles(c, roles) == \A k \in AdminRoles : <<c, k>> \in adminRoles => k \in roles

\* What GrantsFollowRealms says of a name.
Settled(n) ==
  /\ realmRow[n] = Nobody <=> containerRow[n] = Nobody
  /\ containerRow[n] # Nobody => Granted(containerRow[n])

RolesHoused == \A r \in adminRoles : r[1] \in blurred \/ \E n \in RealmNames : containerRow[n] = r[1]

Clear(q) == NamesOf(q) \cap blurred = {}

\* Requests that share a name, and all that they hold, are blurred together.
Blurs ==
  /\ \A q \in RealmRequests : NamesOf(q) \subseteq blurred \/ Clear(q)
  /\ \A q, o \in RealmRequests : q # o => NamesOf(q) \cap NamesOf(o) \subseteq blurred
  /\ \A n \in RealmNames \cap blurred : containerRow[n] \in blurred \cup {Nobody}
  /\ \A q \in RealmRequests : Clear(q) \/ realmReq[q].container \in blurred \cup {Nobody}

\* The realm and the container a request has found lie under a name of its own, or
\* a rename that met the request took them away.
Holds(q, n) ==
  \/ realmReq[q].id # Nobody /\ realmRow[n] = realmReq[q].id
  \/ realmReq[q].container # Nobody /\ containerRow[n] = realmReq[q].container
HeldWhere ==
  \A q \in RealmRequests, n \in RealmNames :
    Holds(q, n) => n \in NamesOf(q) \/ (n \in blurred /\ NamesOf(q) \subseteq blurred)

IdsDrawn ==
  /\ \A n \in RealmNames : realmRow[n] \notin undrawn /\ containerRow[n] \notin undrawn
  /\ \A q \in RealmRequests : realmReq[q].id \notin undrawn /\ realmReq[q].container \notin undrawn

\* The columns of a request that its step needs.
RealmShaped(q) ==
  LET r == realmReq[q] IN
  /\ r.step \in {"idle", "over"} <=> r.name = Nobody
  /\ r.step \in {"rename", "moved", "move"} <=> r.to # Nobody
  /\ r.to # Nobody => r.to # r.name
  /\ r.step \notin {"idle", "over", "row"} => r.id # Nobody
  /\ r.step \in {"roles", "compose", "mappings", "list", "drop", "dropClient", "move"} => r.container # Nobody

\* What a request that nobody has met knows of its names.
RealmStanding(q) ==
  LET r == realmReq[q]
      n == r.name
      m == r.to
      c == r.container IN
  /\ r.step \notin {"idle", "over", "row", "moved", "move"} => realmRow[n] = r.id
  /\ r.step \in {"row", "find", "write", "rename"} => Settled(n)
  /\ r.step = "rename" => Settled(m)
  /\ r.step \in {"seed", "client"} /\ containerRow[n] # Nobody => Granted(containerRow[n])
  /\ r.step = "lookup" => containerRow[n] # Nobody
  /\ r.step \in {"roles", "compose", "mappings", "list", "drop", "dropClient", "move"} => containerRow[n] = c
  /\ r.step = "roles" => HasRoles(c, AdminRoles \ r.todo)
  /\ r.step = "compose" => HasRoles(c, AdminRoles) /\ \A k \in AdminRoles \ r.todo : <<c, k>> \in granted
  /\ r.step = "mappings" => Granted(c)
  /\ r.step = "drop" => OnlyRoles(c, r.todo)
  /\ r.step = "dropClient" => OnlyRoles(c, {})
  /\ r.step = "dropRow" => containerRow[n] = Nobody
  /\ r.step \in {"moved", "move"} =>
       /\ realmRow[n] = Nobody /\ realmRow[m] = r.id /\ containerRow[m] = Nobody
       /\ containerRow[n] # Nobody /\ Granted(containerRow[n])

CInv ==
  /\ ContainersTypeOK
  /\ Blurs /\ HeldWhere /\ IdsDrawn /\ RolesHoused
  /\ \A q \in RealmRequests : RealmShaped(q) /\ (Clear(q) => RealmStanding(q))
  /\ \A n \in RealmNames \ blurred : ~Active(n) => Settled(n)

-----------------------------------------------------------------------------
(* A step of one request *)

\* The tables under a name stay.
Same(n) ==
  /\ realmRow'[n] = realmRow[n] /\ containerRow'[n] = containerRow[n]
  /\ \A k \in AdminRoles : /\ <<containerRow[n], k>> \in granted' <=> <<containerRow[n], k>> \in granted
                           /\ <<containerRow[n], k>> \in adminRoles' <=> <<containerRow[n], k>> \in adminRoles

OthersStay(q) == \A o \in RealmRequests \ {q} : realmReq'[o] = realmReq[o]

\* What a step of a request has to show.
Sound(q) ==
  /\ ContainersTypeOK' /\ OthersStay(q) /\ blurred \subseteq blurred'
  /\ Blurs' /\ HeldWhere' /\ IdsDrawn' /\ RolesHoused' /\ RealmShaped(q)'
  /\ \A n \in RealmNames \ (blurred \cup NamesOf(q)) : Same(n)
  /\ Clear(q)' => RealmStanding(q)'
  /\ \A n \in (NamesOf(q) \ NamesOf(q)') \ blurred' : Settled(n)'

LEMMA NamesType ==
  ASSUME ContainersTypeOK, NEW q \in RealmRequests
  PROVE  NamesOf(q) \subseteq RealmNames /\ Nobody \notin NamesOf(q)
BY DEF ContainersTypeOK, NamesOf, RealmRequest

LEMMA SameSettled ==
  ASSUME NEW n, Same(n), Settled(n)
  PROVE  Settled(n)'
BY DEF Same, Settled, Granted

LEMMA SameStands ==
  ASSUME NEW o \in RealmRequests, RealmShaped(o), RealmStanding(o), realmReq'[o] = realmReq[o],
         \A n \in NamesOf(o) : Same(n)
  PROVE  RealmStanding(o)'
<1> DEFINE r == realmReq[o]
<1>1. CASE r.step \in {"idle", "over"}
  BY <1>1 DEF RealmStanding
<1>2. CASE r.step \notin {"idle", "over"}
  <2>1. Same(r.name)
    BY <1>2 DEF RealmShaped, NamesOf
  <2>2. r.step \in {"rename", "moved", "move"} => Same(r.to)
    BY DEF RealmShaped, NamesOf
  <2>3. CASE r.step \in {"row", "find", "write", "rename"}
    BY <2>1, <2>2, <2>3, SameSettled DEF RealmStanding, Same
  <2>4. CASE r.step \in {"moved", "move"}
    BY <2>1, <2>2, <2>4 DEF RealmStanding, Same, Granted
  <2>5. CASE r.step \in {"seed", "client", "lookup", "dropRow"}
    BY <2>1, <2>5 DEF RealmStanding, Same, Granted
  <2>6. CASE r.step \notin {"row", "find", "write", "rename", "moved", "move", "seed", "client", "lookup", "dropRow"}
    BY <1>2, <2>1, <2>6 DEF RealmStanding, Same, Granted, HasRoles, OnlyRoles
  <2> QED
    BY <2>3, <2>4, <2>5, <2>6
<1> QED
  BY <1>1, <1>2

LEMMA SoundStep ==
  ASSUME CInv, NEW q \in RealmRequests, Sound(q)
  PROVE  CInv'
<1> USE DEF CInv
<1>1. ASSUME NEW o \in RealmRequests \ {q}
      PROVE  /\ RealmShaped(o)' /\ NamesOf(o)' = NamesOf(o)
             /\ Clear(o)' => RealmStanding(o)'
  <2>1. realmReq'[o] = realmReq[o]
    BY DEF Sound, OthersStay
  <2>2. RealmShaped(o)' /\ NamesOf(o)' = NamesOf(o)
    BY <2>1 DEF RealmShaped, NamesOf
  <2>3. ASSUME Clear(o)' PROVE RealmStanding(o)'
    <3>1. Clear(o)
      BY <2>2, <2>3 DEF Clear, Sound
    <3>2. ASSUME NEW n \in NamesOf(o) PROVE Same(n)
      <4>1. n \notin blurred /\ n \in RealmNames
        BY <3>1, NamesType DEF Clear
      <4>2. n \notin NamesOf(q)
        BY <4>1 DEF Blurs
      <4> QED
        BY <4>1, <4>2 DEF Sound
    <3> QED
      BY <2>1, <3>1, <3>2, SameStands
  <2> QED
    BY <2>2, <2>3
<1>2. ASSUME NEW n \in RealmNames \ blurred', ~Active(n)' PROVE Settled(n)'
  <2>1. n \notin NamesOf(q)' /\ \A o \in RealmRequests \ {q} : n \notin NamesOf(o)
    BY <1>1, <1>2 DEF Active
  <2>2. CASE n \in NamesOf(q)
    BY <2>1, <2>2 DEF Sound
  <2>3. CASE n \notin NamesOf(q)
    <3>1. ~Active(n) /\ n \notin blurred
      BY <2>1, <2>3 DEF Active, Sound
    <3>2. Same(n)
      BY <2>3, <3>1 DEF Sound
    <3> QED
      BY <3>1, <3>2, SameSettled
  <2> QED
    BY <2>2, <2>3
<1>3. ASSUME NEW o \in RealmRequests PROVE RealmShaped(o)' /\ (Clear(o)' => RealmStanding(o)')
  BY <1>1 DEF Sound
<1> QED
  BY <1>2, <1>3 DEF Sound

LEMMA OverFacts ==
  /\ OverRealmRequest \in RealmRequest /\ OverRealmRequest.step = "over"
  /\ OverRealmRequest.name = Nobody /\ OverRealmRequest.to = Nobody
  /\ OverRealmRequest.id = Nobody /\ OverRealmRequest.container = Nobody
BY DEF OverRealmRequest, IdleRealmRequest, RealmRequest, RealmSteps

\* A request that goes on under its names, or leaves them, and learns at most what
\* lies under its own name, while nothing else moves.
LEMMA LinksStay ==
  ASSUME CInv, NEW q \in RealmRequests, NEW r \in RealmRequest,
         realmReq' = [realmReq EXCEPT ![q] = r],
         UNCHANGED <<realmRow, containerRow, undrawn, blurred>>,
         realmReq[q].name # Nobody,
         \/ r.name = realmReq[q].name /\ r.to = realmReq[q].to
         \/ r.name = Nobody /\ r.to = Nobody /\ r.id = Nobody /\ r.container = Nobody,
         r.id \in {realmReq[q].id, Nobody, realmRow[realmReq[q].name]},
         r.container \in {realmReq[q].container, Nobody, containerRow[realmReq[q].name]}
  PROVE  /\ realmReq' \in [RealmRequests -> RealmRequest] /\ OthersStay(q)
         /\ Blurs' /\ HeldWhere' /\ IdsDrawn'
         /\ NamesOf(q)' = {r.name, r.to} \ {Nobody} /\ NamesOf(q)' \in {NamesOf(q), {}}
<1> USE DEF CInv
<1> DEFINE n == realmReq[q].name
<1>1. realmReq' \in [RealmRequests -> RealmRequest] /\ OthersStay(q) /\ realmReq'[q] = r
  BY DEF ContainersTypeOK, OthersStay
<1>2. NamesOf(q)' = {r.name, r.to} \ {Nobody} /\ NamesOf(q)' \in {NamesOf(q), {}}
  BY <1>1 DEF NamesOf
<1>3. \A o \in RealmRequests \ {q} : realmReq'[o] = realmReq[o] /\ NamesOf(o)' = NamesOf(o)
  BY <1>1 DEF OthersStay, NamesOf
<1>4. n \in RealmNames /\ n \in NamesOf(q)
  BY DEF ContainersTypeOK, RealmRequest, NamesOf
<1>5. Blurs'
  <2>1. \A o \in RealmRequests : NamesOf(o)' \subseteq blurred' \/ Clear(o)'
    BY <1>2, <1>3 DEF Blurs, Clear
  <2>2. \A p, o \in RealmRequests : p # o => NamesOf(p)' \cap NamesOf(o)' \subseteq blurred'
    BY <1>2, <1>3 DEF Blurs
  <2>3. \A m \in RealmNames \cap blurred' : containerRow'[m] \in blurred' \cup {Nobody}
    BY DEF Blurs
  <2>4. Clear(q)' \/ realmReq'[q].container \in blurred' \cup {Nobody}
    BY <1>1, <1>2, <1>4 DEF Blurs, Clear
  <2>5. \A o \in RealmRequests : Clear(o)' \/ realmReq'[o].container \in blurred' \cup {Nobody}
    BY <1>3, <2>4 DEF Blurs, Clear
  <2> QED
    BY <2>1, <2>2, <2>3, <2>5 DEF Blurs
<1>6. HeldWhere'
  <2>1. ASSUME NEW m \in RealmNames, Holds(q, m)'
        PROVE  m \in NamesOf(q)' \/ (m \in blurred' /\ NamesOf(q)' \subseteq blurred')
    <3>1. r.id # Nobody \/ r.container # Nobody
      BY <1>1, <2>1 DEF Holds
    <3>2. NamesOf(q)' = NamesOf(q)
      BY <1>1, <1>2, <3>1 DEF NamesOf
    <3>3. Holds(q, m) \/ m = n
      BY <1>1, <1>4, <2>1 DEF Holds, ContainersTypeOK
    <3> QED
      BY <1>4, <3>2, <3>3 DEF HeldWhere
  <2>2. ASSUME NEW o \in RealmRequests \ {q}, NEW m \in RealmNames, Holds(o, m)'
        PROVE  m \in NamesOf(o)' \/ (m \in blurred' /\ NamesOf(o)' \subseteq blurred')
    BY <1>3, <2>2 DEF Holds, HeldWhere
  <2> QED
    BY <2>1, <2>2 DEF HeldWhere
<1>7. IdsDrawn'
  <2>1. Nobody \notin undrawn
    BY RealmContainersAssumption DEF ContainersTypeOK
  <2>2. r.id \notin undrawn /\ r.container \notin undrawn
    BY <1>4, <2>1 DEF IdsDrawn
  <2> QED
    BY <1>1, <1>3, <2>2 DEF IdsDrawn
<1> QED
  BY <1>1, <1>2, <1>5, <1>6, <1>7

\* Blurring the names a request reaches keeps the blurred together.
LEMMA BlurTogether ==
  ASSUME CInv, NEW names \in SUBSET RealmNames, NEW o \in RealmRequests
  PROVE  /\ Blur(Reach(names)) \subseteq RealmNames \cup ContainerIds
         /\ names \subseteq Blur(Reach(names))
         /\ LET b == blurred \cup Blur(Reach(names)) IN
            /\ NamesOf(o) \subseteq b \/ NamesOf(o) \cap b = {}
            /\ NamesOf(o) \cap b = {} \/ realmReq[o].container \in b \cup {Nobody}
            /\ NamesOf(o) \cap names # {} => NamesOf(o) \subseteq b
            /\ \A n \in RealmNames \cap b : containerRow[n] \in b \cup {Nobody}
<1> USE DEF CInv
<1> DEFINE R == Reach(names)
           b == blurred \cup Blur(R)
<1>1. names \subseteq R /\ R \subseteq RealmNames
  BY NamesType DEF Reach
<1>2. \A p \in RealmRequests : NamesOf(p) \cap names # {} => NamesOf(p) \subseteq R
  BY DEF Reach
<1>3. \A n \in R : n \in names \/ \E p \in RealmRequests : NamesOf(p) \cap names # {} /\ n \in NamesOf(p)
  BY DEF Reach
<1> HIDE DEF R
<1>4. R \subseteq Blur(R)
  BY DEF Blur
<1>5. \A n \in RealmNames : n \in Blur(R) <=> n \in R
  BY RealmContainersAssumption, <1>1 DEF Blur, ContainersTypeOK, RealmRequest
<1>6. \A n \in R : containerRow[n] \in Blur(R) \cup {Nobody}
  BY <1>1 DEF Blur
<1>7. \A p \in RealmRequests : NamesOf(p) \cap R # {} => realmReq[p].container \in Blur(R) \cup {Nobody}
  BY DEF Blur
<1>8. Blur(R) \subseteq RealmNames \cup ContainerIds
  BY <1>1 DEF Blur, ContainersTypeOK, RealmRequest
<1>9. NamesOf(o) \cap R # {} => NamesOf(o) \subseteq blurred \cup R
  <2> SUFFICES ASSUME NEW n \in NamesOf(o) \cap R PROVE NamesOf(o) \subseteq blurred \cup R
    OBVIOUS
  <2>1. CASE n \in names
    BY <1>2, <2>1
  <2>2. CASE n \notin names
    <3>1. PICK p \in RealmRequests : NamesOf(p) \cap names # {} /\ n \in NamesOf(p)
      BY <1>3, <2>2
    <3>2. CASE p = o
      BY <1>2, <3>1, <3>2
    <3>3. CASE p # o
      <4>1. n \in blurred
        BY <3>1, <3>3 DEF Blurs
      <4> QED
        BY <4>1 DEF Blurs, Clear
    <3> QED
      BY <3>2, <3>3
  <2> QED
    BY <2>1, <2>2
<1>10. NamesOf(o) \subseteq RealmNames
  BY NamesType
<1>11. NamesOf(o) \subseteq b \/ NamesOf(o) \cap b = {}
  <2>1. CASE NamesOf(o) \cap R # {}
    BY <1>4, <1>9, <2>1
  <2>2. CASE NamesOf(o) \cap R = {}
    BY <1>5, <1>10, <2>2 DEF Blurs, Clear
  <2> QED
    BY <2>1, <2>2
<1>12. NamesOf(o) \cap b = {} \/ realmReq[o].container \in b \cup {Nobody}
  BY <1>5, <1>7, <1>10 DEF Blurs, Clear
<1>13. NamesOf(o) \cap names # {} => NamesOf(o) \subseteq b
  BY <1>2, <1>4
<1>14. \A n \in RealmNames \cap b : containerRow[n] \in b \cup {Nobody}
  BY <1>5, <1>6 DEF Blurs
<1> QED
  BY <1>1, <1>4, <1>8, <1>11, <1>12, <1>13, <1>14 DEF R

LEMMA AbortSound ==
  ASSUME CInv, NEW q \in RealmRequests, realmReq[q].name # Nobody, Aborted(q),
         UNCHANGED <<realmRow, containerRow, adminRoles, granted, undrawn>>
  PROVE  Sound(q)
<1> USE DEF CInv
<1> DEFINE names == NamesOf(q)
           b == blurred \cup Blur(Reach(names))
<1>1. /\ realmReq' \in [RealmRequests -> RealmRequest] /\ OthersStay(q)
      /\ realmReq'[q] = OverRealmRequest /\ blurred' = b
  BY OverFacts DEF Aborted, ContainersTypeOK, OthersStay
<1>2. NamesOf(q)' = {}
  BY <1>1, OverFacts DEF NamesOf
<1>3. \A o \in RealmRequests \ {q} : realmReq'[o] = realmReq[o] /\ NamesOf(o)' = NamesOf(o)
  BY <1>1 DEF OthersStay, NamesOf
<1>4. names \subseteq RealmNames
  BY NamesType
<1>5. /\ Blur(Reach(names)) \subseteq RealmNames \cup ContainerIds
      /\ names \subseteq b
      /\ \A o \in RealmRequests :
           /\ NamesOf(o) \subseteq b \/ NamesOf(o) \cap b = {}
           /\ NamesOf(o) \cap b = {} \/ realmReq[o].container \in b \cup {Nobody}
      /\ \A n \in RealmNames \cap b : containerRow[n] \in b \cup {Nobody}
  BY <1>4, BlurTogether
<1> HIDE DEF names, b
<1>6. blurred \subseteq b
  BY DEF b
<1>7. ContainersTypeOK'
  BY <1>1, <1>5 DEF ContainersTypeOK, b
<1>8. Blurs'
  <2>1. \A o \in RealmRequests : NamesOf(o)' \subseteq blurred' \/ Clear(o)'
    BY <1>1, <1>2, <1>3, <1>5 DEF Clear
  <2>2. \A p, o \in RealmRequests : p # o => NamesOf(p)' \cap NamesOf(o)' \subseteq blurred'
    BY <1>1, <1>2, <1>3, <1>6 DEF Blurs
  <2>3. \A o \in RealmRequests : Clear(o)' \/ realmReq'[o].container \in blurred' \cup {Nobody}
    BY <1>1, <1>2, <1>3, <1>5 DEF Clear
  <2> QED
    BY <1>1, <1>5, <2>1, <2>2, <2>3 DEF Blurs
<1>9. HeldWhere'
  BY <1>1, <1>3, <1>6, OverFacts DEF HeldWhere, Holds
<1>10. IdsDrawn'
  <2>1. Nobody \notin undrawn
    BY RealmContainersAssumption DEF ContainersTypeOK
  <2> QED
    BY <1>1, <1>3, <2>1, OverFacts DEF IdsDrawn
<1>11. RolesHoused'
  BY <1>1, <1>6 DEF RolesHoused
<1>12. RealmShaped(q)' /\ RealmStanding(q)'
  BY <1>1, OverFacts DEF RealmShaped, RealmStanding
<1>13. \A n \in RealmNames : Same(n)
  BY DEF Same
<1>14. NamesOf(q) \subseteq blurred'
  BY <1>1, <1>5 DEF names
<1> QED
  BY <1>1, <1>6, <1>7, <1>8, <1>9, <1>10, <1>11, <1>12, <1>13, <1>14 DEF Sound

LEMMA ArrivalSound ==
  ASSUME CInv, NEW q \in RealmRequests, NEW r \in RealmRequest, NEW names \in SUBSET RealmNames,
         Arrives(q, names, r), names = {r.name, r.to} \ {Nobody},
         UNCHANGED <<realmRow, containerRow, adminRoles, granted, undrawn>>,
         r.name # Nobody, r.step \in {"row", "find", "write", "rename"}, r.container = Nobody,
         (r.step = "row" /\ r.id = Nobody) \/ (r.id = realmRow[r.name] /\ r.id # Nobody),
         r.step = "rename" <=> r.to # Nobody, r.to # r.name
  PROVE  Sound(q)
<1> USE DEF CInv
<1>1. /\ realmReq' \in [RealmRequests -> RealmRequest] /\ OthersStay(q) /\ realmReq'[q] = r
  BY DEF Arrives, ContainersTypeOK, OthersStay
<1>2. NamesOf(q) = {} /\ NamesOf(q)' = names
  BY <1>1 DEF Arrives, NamesOf, RealmShaped
<1>3. \A o \in RealmRequests \ {q} : realmReq'[o] = realmReq[o] /\ NamesOf(o)' = NamesOf(o)
  BY <1>1 DEF OthersStay, NamesOf
<1> DEFINE b == blurred \cup Blur(Reach(names))
           met == \E n \in names : Active(n) \/ n \in blurred
<1>4. blurred' = IF met THEN b ELSE blurred
  BY DEF Arrives
<1>5. /\ Blur(Reach(names)) \subseteq RealmNames \cup ContainerIds
      /\ names \subseteq b
      /\ \A o \in RealmRequests :
           /\ NamesOf(o) \subseteq b \/ NamesOf(o) \cap b = {}
           /\ NamesOf(o) \cap b = {} \/ realmReq[o].container \in b \cup {Nobody}
           /\ NamesOf(o) \cap names # {} => NamesOf(o) \subseteq b
      /\ \A n \in RealmNames \cap b : containerRow[n] \in b \cup {Nobody}
  <2>1. \A o \in RealmRequests :
           /\ NamesOf(o) \subseteq b \/ NamesOf(o) \cap b = {}
           /\ NamesOf(o) \cap b = {} \/ realmReq[o].container \in b \cup {Nobody}
           /\ NamesOf(o) \cap names # {} => NamesOf(o) \subseteq b
    BY BlurTogether
  <2> QED
    BY <2>1, BlurTogether
<1>6. blurred \subseteq b
  OBVIOUS
<1>7. \A o \in RealmRequests \ {q} : NamesOf(o) \cap names # {} => met
  BY DEF Active
<1>8. ~met => names \cap blurred = {}
  OBVIOUS
<1>9. ~met => \A n \in names : ~Active(n) /\ n \notin blurred
  OBVIOUS
<1> HIDE DEF b, met
<1>10. blurred \subseteq blurred'
  BY <1>4, <1>6
<1>11. ContainersTypeOK'
  BY <1>1, <1>4, <1>5 DEF ContainersTypeOK, b
<1>12. \A n \in names \ blurred' : Settled(n)
  BY <1>4, <1>5, <1>9
<1>13. Blurs'
  <2>1. \A o \in RealmRequests : NamesOf(o)' \subseteq blurred' \/ Clear(o)'
    <3>1. NamesOf(q)' \subseteq blurred' \/ Clear(q)'
      BY <1>2, <1>4, <1>5, <1>8 DEF Clear
    <3>2. ASSUME NEW o \in RealmRequests \ {q} PROVE NamesOf(o)' \subseteq blurred' \/ Clear(o)'
      BY <1>3, <1>4, <1>5 DEF Blurs, Clear
    <3> QED
      BY <3>1, <3>2
  <2>2. \A p, o \in RealmRequests : p # o => NamesOf(p)' \cap NamesOf(o)' \subseteq blurred'
    <3>1. \A o \in RealmRequests \ {q} : NamesOf(o) \cap names \subseteq blurred'
      BY <1>4, <1>5, <1>7
    <3>2. ASSUME NEW p \in RealmRequests, NEW o \in RealmRequests, p # o
          PROVE  NamesOf(p)' \cap NamesOf(o)' \subseteq blurred'
      <4>1. CASE p = q
        BY <1>2, <1>3, <3>1, <3>2, <4>1
      <4>2. CASE o = q
        BY <1>2, <1>3, <3>1, <3>2, <4>2
      <4>3. CASE p # q /\ o # q
        BY <1>3, <1>10, <3>2, <4>3 DEF Blurs
      <4> QED
        BY <4>1, <4>2, <4>3
    <3> QED
      BY <3>2
  <2>3. \A o \in RealmRequests : Clear(o)' \/ realmReq'[o].container \in blurred' \cup {Nobody}
    BY <1>1, <1>3, <1>4, <1>5 DEF Blurs, Clear
  <2>4. \A n \in RealmNames \cap blurred' : containerRow'[n] \in blurred' \cup {Nobody}
    BY <1>4, <1>5 DEF Blurs
  <2> QED
    BY <2>1, <2>2, <2>3, <2>4 DEF Blurs
<1>14. HeldWhere'
  <2>1. ASSUME NEW m \in RealmNames, Holds(q, m)' PROVE m \in NamesOf(q)'
    <3>1. r.name \in names /\ r.name \in RealmNames
      BY <1>2 DEF RealmRequest
    <3> QED
      BY <1>1, <1>2, <2>1, <3>1 DEF Holds, ContainersTypeOK
  <2>2. ASSUME NEW o \in RealmRequests \ {q}, NEW m \in RealmNames, Holds(o, m)'
        PROVE  m \in NamesOf(o)' \/ (m \in blurred' /\ NamesOf(o)' \subseteq blurred')
    BY <1>3, <1>10, <2>2 DEF Holds, HeldWhere
  <2> QED
    BY <2>1, <2>2 DEF HeldWhere
<1>15. IdsDrawn'
  <2>1. Nobody \notin undrawn
    BY RealmContainersAssumption DEF ContainersTypeOK
  <2>2. r.id \notin undrawn
    BY <2>1 DEF IdsDrawn, RealmRequest
  <2> QED
    BY <1>1, <1>3, <2>1, <2>2 DEF IdsDrawn
<1>16. RolesHoused'
  BY <1>10 DEF RolesHoused
<1>17. RealmShaped(q)'
  BY <1>1 DEF RealmShaped
<1>18. \A n \in RealmNames : Same(n)
  BY DEF Same
<1>19. ASSUME Clear(q)' PROVE RealmStanding(q)'
  <2>1. names \cap blurred' = {}
    BY <1>2, <1>19 DEF Clear
  <2>2. \A n \in names : Settled(n)'
    BY <1>12, <1>18, <2>1, SameSettled
  <2>3. r.name \in names /\ (r.step = "rename" => r.to \in names)
    OBVIOUS
  <2> QED
    BY <1>1, <2>2, <2>3 DEF RealmStanding
<1> QED
  BY <1>1, <1>2, <1>10, <1>11, <1>13, <1>14, <1>15, <1>16, <1>17, <1>18, <1>19 DEF Sound

-----------------------------------------------------------------------------
(* The actions *)

LEMMA Foreign ==
  ASSUME CInv, NEW q \in RealmRequests, NEW n \in RealmNames \ (blurred \cup NamesOf(q))
  PROVE  ~Holds(q, n)
BY DEF CInv, HeldWhere

\* What every request at work may rely on.
LEMMA AtWork ==
  ASSUME CInv, NEW q \in RealmRequests, realmReq[q].step \notin {"idle", "over"}
  PROVE  /\ realmReq[q] \in RealmRequest
         /\ realmReq[q].name # Nobody /\ realmReq[q].name \in RealmNames /\ realmReq[q].name \in NamesOf(q)
         /\ realmReq[q].to # Nobody => realmReq[q].to \in RealmNames /\ realmReq[q].to \in NamesOf(q)
         /\ RealmShaped(q) /\ (Clear(q) => RealmStanding(q))
         /\ Clear(q) \/ realmReq[q].container \in blurred \cup {Nobody}
         /\ OverRealmRequest \in RealmRequest
<1> USE DEF CInv
<1>1. realmReq[q] \in RealmRequest /\ RealmShaped(q)
  BY DEF ContainersTypeOK
<1> QED
  BY <1>1, OverFacts DEF RealmShaped, NamesOf, RealmRequest, Blurs

LEMMA PostRealmSound ==
  ASSUME CInv, NEW q \in RealmRequests, PostRealm(q)
  PROVE  Sound(q)
<1>1. PICK n \in RealmNames : Arrives(q, {n}, [IdleRealmRequest EXCEPT !.step = "row", !.name = n])
  BY DEF PostRealm
<1> DEFINE r == [IdleRealmRequest EXCEPT !.step = "row", !.name = n]
<1>2. /\ r \in RealmRequest /\ r.step = "row" /\ r.name = n /\ r.to = Nobody /\ r.id = Nobody
      /\ r.container = Nobody
  BY DEF IdleRealmRequest, RealmRequest, RealmSteps
<1>3. n # Nobody
  BY RealmContainersAssumption
<1> HIDE DEF r
<1>4. Arrives(q, {n}, r)
  BY <1>1 DEF r
<1>5. {n} = {r.name, r.to} \ {Nobody}
  BY <1>2, <1>3
<1>6. UNCHANGED <<realmRow, containerRow, adminRoles, granted, undrawn>>
  BY DEF PostRealm
<1> QED
  <2>1. /\ r.step \in {"row", "find", "write", "rename"}
        /\ (r.step = "row" /\ r.id = Nobody) \/ (r.id = realmRow[r.name] /\ r.id # Nobody)
        /\ r.name # Nobody /\ r.container = Nobody
        /\ (r.step = "rename" <=> r.to # Nobody) /\ r.to # r.name
    BY <1>2, <1>3
  <2>2. {n} \in SUBSET RealmNames
    OBVIOUS
  <2>3. r \in RealmRequest
    BY <1>2
  <2> QED
    BY <1>4, <1>5, <1>6, <2>1, <2>2, <2>3, ArrivalSound

LEMMA DeleteRealmSound ==
  ASSUME CInv, NEW q \in RealmRequests, DeleteRealm(q)
  PROVE  Sound(q)
<1>1. PICK n \in RealmNames :
        /\ realmRow[n] # Nobody
        /\ Arrives(q, {n}, [IdleRealmRequest EXCEPT !.step = "find", !.name = n, !.id = realmRow[n]])
  BY DEF DeleteRealm
<1> DEFINE r == [IdleRealmRequest EXCEPT !.step = "find", !.name = n, !.id = realmRow[n]]
<1>2. /\ r \in RealmRequest /\ r.step = "find" /\ r.name = n /\ r.to = Nobody /\ r.id = realmRow[n]
      /\ r.container = Nobody
  BY DEF IdleRealmRequest, RealmRequest, RealmSteps, CInv, ContainersTypeOK
<1>3. n # Nobody
  BY RealmContainersAssumption
<1> HIDE DEF r
<1>4. Arrives(q, {n}, r)
  BY <1>1 DEF r
<1> QED
  BY <1>1, <1>2, <1>3, <1>4, ArrivalSound DEF DeleteRealm

LEMMA PutRealmSound ==
  ASSUME CInv, NEW q \in RealmRequests, PutRealm(q)
  PROVE  Sound(q)
<1>1. PICK n \in RealmNames :
        /\ realmRow[n] # Nobody
        /\ Arrives(q, {n}, [IdleRealmRequest EXCEPT !.step = "write", !.name = n, !.id = realmRow[n]])
  BY DEF PutRealm
<1> DEFINE r == [IdleRealmRequest EXCEPT !.step = "write", !.name = n, !.id = realmRow[n]]
<1>2. /\ r \in RealmRequest /\ r.step = "write" /\ r.name = n /\ r.to = Nobody /\ r.id = realmRow[n]
      /\ r.container = Nobody
  BY DEF IdleRealmRequest, RealmRequest, RealmSteps, CInv, ContainersTypeOK
<1>3. n # Nobody
  BY RealmContainersAssumption
<1> HIDE DEF r
<1>4. Arrives(q, {n}, r)
  BY <1>1 DEF r
<1> QED
  BY <1>1, <1>2, <1>3, <1>4, ArrivalSound DEF PutRealm

LEMMA RenameRealmSound ==
  ASSUME CInv, NEW q \in RealmRequests, RenameRealm(q)
  PROVE  Sound(q)
<1>1. PICK n, m \in RealmNames :
        /\ n # m /\ realmRow[n] # Nobody
        /\ Arrives(q, {n, m}, [IdleRealmRequest EXCEPT !.step = "rename", !.name = n, !.to = m,
                                                       !.id = realmRow[n]])
  BY DEF RenameRealm
<1> DEFINE r == [IdleRealmRequest EXCEPT !.step = "rename", !.name = n, !.to = m, !.id = realmRow[n]]
<1>2. /\ r \in RealmRequest /\ r.step = "rename" /\ r.name = n /\ r.to = m /\ r.id = realmRow[n]
      /\ r.container = Nobody
  BY DEF IdleRealmRequest, RealmRequest, RealmSteps, CInv, ContainersTypeOK
<1>3. n # Nobody /\ m # Nobody
  BY RealmContainersAssumption
<1> HIDE DEF r
<1>4. Arrives(q, {n, m}, r)
  BY <1>1 DEF r
<1> QED
  BY <1>1, <1>2, <1>3, <1>4, ArrivalSound DEF RenameRealm

\* A request that leaves when what it knows settles its names.
LEMMA AnswerSound ==
  ASSUME CInv, NEW q \in RealmRequests, realmReq[q].step \notin {"idle", "over"},
         realmReq' = [realmReq EXCEPT ![q] = OverRealmRequest],
         UNCHANGED <<realmRow, containerRow, adminRoles, granted, undrawn, blurred>>,
         Clear(q) => Settled(realmReq[q].name) /\ (realmReq[q].to # Nobody => Settled(realmReq[q].to))
  PROVE  Sound(q)
<1> USE DEF CInv
<1>1. realmReq[q].name # Nobody /\ OverRealmRequest \in RealmRequest
  BY AtWork
<1>2. /\ realmReq' \in [RealmRequests -> RealmRequest] /\ OthersStay(q)
      /\ Blurs' /\ HeldWhere' /\ IdsDrawn' /\ NamesOf(q)' = {OverRealmRequest.name, OverRealmRequest.to} \ {Nobody}
  BY <1>1, LinksStay, OverFacts
<1>20. NamesOf(q)' = {}
  BY <1>2, OverFacts
<1>3. ContainersTypeOK'
  BY <1>2 DEF ContainersTypeOK
<1>4. RealmShaped(q)' /\ RealmStanding(q)'
  BY OverFacts DEF RealmShaped, RealmStanding, ContainersTypeOK
<1>5. \A n \in RealmNames : Same(n)
  BY DEF Same
<1>6. \A n \in NamesOf(q) \ blurred' : Settled(n)'
  <2> SUFFICES ASSUME NEW n \in NamesOf(q) \ blurred' PROVE Settled(n)'
    OBVIOUS
  <2>1. Clear(q)
    BY DEF Blurs, Clear
  <2>2. Settled(n) /\ n \in RealmNames
    BY <2>1, NamesType DEF NamesOf
  <2> QED
    BY <1>5, <2>2, SameSettled
<1> QED
  BY <1>2, <1>20, <1>3, <1>4, <1>5, <1>6 DEF Sound, RolesHoused

\* A request that goes on under its names without a write to the tables.
LEMMA AdvanceSound ==
  ASSUME CInv, NEW q \in RealmRequests, realmReq[q].step \notin {"idle", "over"},
         NEW r \in RealmRequest, realmReq' = [realmReq EXCEPT ![q] = r],
         UNCHANGED <<realmRow, containerRow, adminRoles, granted, undrawn, blurred>>,
         r.name = realmReq[q].name, r.to = realmReq[q].to,
         r.id \in {realmReq[q].id, Nobody, realmRow[realmReq[q].name]},
         r.container \in {realmReq[q].container, Nobody, containerRow[realmReq[q].name]},
         RealmShaped(q)', Clear(q) => RealmStanding(q)'
  PROVE  Sound(q)
<1> USE DEF CInv
<1>1. realmReq[q].name # Nobody
  BY AtWork
<1>2. /\ realmReq' \in [RealmRequests -> RealmRequest] /\ OthersStay(q)
      /\ Blurs' /\ HeldWhere' /\ IdsDrawn' /\ NamesOf(q)' = NamesOf(q)
  BY <1>1, LinksStay DEF NamesOf
<1>3. ContainersTypeOK'
  BY <1>2 DEF ContainersTypeOK
<1>4. \A n \in RealmNames : Same(n)
  BY DEF Same
<1>5. Clear(q)' => RealmStanding(q)'
  BY <1>2 DEF Clear
<1> QED
  BY <1>2, <1>3, <1>4, <1>5 DEF Sound, RolesHoused

LEMMA SeedRealmSound ==
  ASSUME CInv, NEW q \in RealmRequests, SeedRealm(q)
  PROVE  Sound(q)
<1> USE DEF CInv
<1>1. realmReq[q].step \in {"seed", "mappings"}
  BY DEF SeedRealm
<1>2. /\ realmReq[q] \in RealmRequest /\ realmReq[q].name # Nobody /\ realmReq[q].name \in RealmNames
      /\ RealmShaped(q) /\ (Clear(q) => RealmStanding(q))
  BY <1>1, AtWork
<1>3. CASE ~RealmLives(realmReq[q].id)
  BY <1>2, <1>3, AbortSound DEF SeedRealm
<1>4. CASE RealmLives(realmReq[q].id) /\ realmReq[q].step = "seed"
  <2> DEFINE r == [realmReq[q] EXCEPT !.step = "client"]
  <2>1. realmReq' = [realmReq EXCEPT ![q] = r] /\ UNCHANGED blurred
    BY <1>4 DEF SeedRealm, To, ContainersTypeOK
  <2>2. r \in RealmRequest /\ r.step = "client" /\ r.name = realmReq[q].name /\ r.to = realmReq[q].to
        /\ r.id = realmReq[q].id /\ r.container = realmReq[q].container
    BY <1>2 DEF RealmRequest, RealmSteps
  <2> HIDE DEF r
  <2>3. realmReq'[q] = r
    BY <2>1 DEF ContainersTypeOK
  <2>4. RealmShaped(q)'
    BY <1>2, <1>4, <2>2, <2>3 DEF RealmShaped
  <2>5. Clear(q) => RealmStanding(q)'
    BY <1>2, <1>4, <2>2, <2>3 DEF RealmStanding, SeedRealm, Granted
  <2> QED
    BY <1>1, <2>1, <2>2, <2>4, <2>5, AdvanceSound DEF SeedRealm
<1>5. CASE RealmLives(realmReq[q].id) /\ realmReq[q].step = "mappings"
  <2>1. Clear(q) => Settled(realmReq[q].name)
    BY <1>2, <1>5 DEF RealmStanding, Settled, RealmShaped
  <2>2. realmReq[q].to = Nobody
    BY <1>2, <1>5 DEF RealmShaped
  <2>3. Answered(q)
    BY <1>5 DEF SeedRealm
  <2> QED
    BY <1>1, <2>1, <2>2, <2>3, AnswerSound DEF SeedRealm, Answered
<1> QED
  BY <1>1, <1>3, <1>4, <1>5

LEMMA LookUpContainerSound ==
  ASSUME CInv, NEW q \in RealmRequests, LookUpContainer(q)
  PROVE  Sound(q)
<1> USE DEF CInv
<1> DEFINE c == containerRow[realmReq[q].name]
<1>1. realmReq[q].step = "lookup"
  BY DEF LookUpContainer
<1>2. /\ realmReq[q] \in RealmRequest /\ realmReq[q].name # Nobody /\ realmReq[q].name \in RealmNames
      /\ RealmShaped(q) /\ (Clear(q) => RealmStanding(q))
  BY <1>1, AtWork
<1>3. CASE c = Nobody
  BY <1>2, <1>3, AbortSound DEF LookUpContainer
<1>4. CASE c # Nobody
  <2> DEFINE r == [realmReq[q] EXCEPT !.step = "roles", !.container = c, !.todo = AdminRoles]
  <2>1. realmReq' = [realmReq EXCEPT ![q] = r] /\ UNCHANGED blurred
    BY <1>4 DEF LookUpContainer, ContainersTypeOK
  <2>2. r \in RealmRequest /\ r.step = "roles" /\ r.name = realmReq[q].name /\ r.to = realmReq[q].to
        /\ r.id = realmReq[q].id /\ r.container = c /\ r.todo = AdminRoles
    BY <1>2 DEF RealmRequest, RealmSteps, ContainersTypeOK
  <2> HIDE DEF r
  <2>3. realmReq'[q] = r
    BY <2>1 DEF ContainersTypeOK
  <2>4. RealmShaped(q)'
    BY <1>1, <1>2, <1>4, <2>2, <2>3 DEF RealmShaped
  <2>5. Clear(q) => RealmStanding(q)'
    BY <1>1, <1>2, <2>2, <2>3 DEF RealmStanding, LookUpContainer, HasRoles
  <2> QED
    BY <1>1, <2>1, <2>2, <2>4, <2>5, AdvanceSound DEF LookUpContainer
<1> QED
  BY <1>3, <1>4

LEMMA FindContainerSound ==
  ASSUME CInv, NEW q \in RealmRequests, FindContainer(q)
  PROVE  Sound(q)
<1> USE DEF CInv
<1> DEFINE c == containerRow[realmReq[q].name]
           r == [realmReq[q] EXCEPT !.container = c, !.step = IF c = Nobody THEN "dropRow" ELSE "list"]
<1>1. realmReq[q].step = "find"
  BY DEF FindContainer
<1>2. /\ realmReq[q] \in RealmRequest /\ realmReq[q].name # Nobody /\ realmReq[q].name \in RealmNames
      /\ RealmShaped(q) /\ (Clear(q) => RealmStanding(q))
  BY <1>1, AtWork
<1>3. realmReq' = [realmReq EXCEPT ![q] = r]
  BY DEF FindContainer, ContainersTypeOK
<1>4. r \in RealmRequest /\ r.step = (IF c = Nobody THEN "dropRow" ELSE "list")
      /\ r.name = realmReq[q].name /\ r.to = realmReq[q].to /\ r.id = realmReq[q].id /\ r.container = c
  BY <1>2 DEF RealmRequest, RealmSteps, ContainersTypeOK
<1> HIDE DEF r
<1>5. realmReq'[q] = r
  BY <1>3 DEF ContainersTypeOK
<1>6. RealmShaped(q)'
  BY <1>1, <1>2, <1>4, <1>5 DEF RealmShaped
<1>7. Clear(q) => RealmStanding(q)'
  BY <1>1, <1>2, <1>4, <1>5 DEF RealmStanding, FindContainer
<1> QED
  BY <1>1, <1>3, <1>4, <1>6, <1>7, AdvanceSound DEF FindContainer

LEMMA ListContainerRolesSound ==
  ASSUME CInv, NEW q \in RealmRequests, ListContainerRoles(q)
  PROVE  Sound(q)
<1> USE DEF CInv
<1> DEFINE held == {k \in AdminRoles : <<realmReq[q].container, k>> \in adminRoles}
           r == [realmReq[q] EXCEPT !.step = "drop", !.todo = held]
<1>1. realmReq[q].step = "list"
  BY DEF ListContainerRoles
<1>2. /\ realmReq[q] \in RealmRequest /\ RealmShaped(q) /\ (Clear(q) => RealmStanding(q))
  BY <1>1, AtWork
<1>3. realmReq' = [realmReq EXCEPT ![q] = r]
  BY DEF ListContainerRoles, ContainersTypeOK
<1>4. r \in RealmRequest /\ r.step = "drop" /\ r.name = realmReq[q].name /\ r.to = realmReq[q].to
      /\ r.id = realmReq[q].id /\ r.container = realmReq[q].container /\ r.todo = held
  BY <1>2 DEF RealmRequest, RealmSteps
<1> HIDE DEF r
<1>5. realmReq'[q] = r
  BY <1>3 DEF ContainersTypeOK
<1>6. RealmShaped(q)'
  BY <1>1, <1>2, <1>4, <1>5 DEF RealmShaped
<1>7. ASSUME Clear(q) PROVE RealmStanding(q)'
  <2>1. realmRow[r.name] = r.id /\ containerRow[r.name] = r.container
    BY <1>1, <1>2, <1>4, <1>7 DEF RealmStanding
  <2>2. \A k \in AdminRoles : <<r.container, k>> \in adminRoles' => k \in r.todo
    BY <1>4 DEF ListContainerRoles
  <2> QED
    BY <1>4, <1>5, <2>1, <2>2 DEF RealmStanding, OnlyRoles, ListContainerRoles
<1> QED
  BY <1>1, <1>3, <1>4, <1>6, <1>7, AdvanceSound DEF ListContainerRoles

LEMMA FindMovedContainerSound ==
  ASSUME CInv, NEW q \in RealmRequests, FindMovedContainer(q)
  PROVE  Sound(q)
<1> USE DEF CInv
<1> DEFINE c == containerRow[realmReq[q].name]
<1>1. realmReq[q].step = "moved"
  BY DEF FindMovedContainer
<1>2. /\ realmReq[q] \in RealmRequest /\ realmReq[q].name # Nobody /\ realmReq[q].name \in RealmNames
      /\ RealmShaped(q) /\ (Clear(q) => RealmStanding(q))
  BY <1>1, AtWork
<1>3. CASE c = Nobody
  <2>1. ~Clear(q)
    BY <1>1, <1>2, <1>3 DEF RealmStanding
  <2> QED
    BY <1>1, <1>3, <2>1, AnswerSound DEF FindMovedContainer, Answered
<1>4. CASE c # Nobody
  <2> DEFINE r == [realmReq[q] EXCEPT !.step = "move", !.container = c]
  <2>1. realmReq' = [realmReq EXCEPT ![q] = r] /\ UNCHANGED blurred
    BY <1>4 DEF FindMovedContainer, ContainersTypeOK
  <2>2. r \in RealmRequest /\ r.step = "move" /\ r.name = realmReq[q].name /\ r.to = realmReq[q].to
        /\ r.id = realmReq[q].id /\ r.container = c
    BY <1>2 DEF RealmRequest, RealmSteps, ContainersTypeOK
  <2> HIDE DEF r
  <2>3. realmReq'[q] = r
    BY <2>1 DEF ContainersTypeOK
  <2>4. RealmShaped(q)'
    BY <1>1, <1>2, <1>4, <2>2, <2>3 DEF RealmShaped
  <2>5. Clear(q) => RealmStanding(q)'
    BY <1>1, <1>2, <2>2, <2>3 DEF RealmStanding, FindMovedContainer, Granted
  <2> QED
    BY <1>1, <2>1, <2>2, <2>4, <2>5, AdvanceSound DEF FindMovedContainer
<1> QED
  BY <1>3, <1>4

LEMMA CutSound ==
  ASSUME CInv, NEW q \in RealmRequests, CutRealmRequest(q)
  PROVE  Sound(q)
BY AtWork, AbortSound DEF CutRealmRequest

-----------------------------------------------------------------------------
(* The writes *)

\* A write to the roles of the container that the request has found.
LEMMA RoleWriteSound ==
  ASSUME CInv, NEW q \in RealmRequests, realmReq[q].step \in {"roles", "compose", "drop"},
         NEW r \in RealmRequest, realmReq' = [realmReq EXCEPT ![q] = r],
         UNCHANGED <<realmRow, containerRow, undrawn, blurred>>,
         r.name = realmReq[q].name, r.to = realmReq[q].to, r.id = realmReq[q].id,
         r.container = realmReq[q].container,
         adminRoles' \in SUBSET (ContainerIds \X AdminRoles), granted' \in SUBSET adminRoles',
         \A d \in ContainerIds \ {r.container}, k \in AdminRoles :
           /\ <<d, k>> \in adminRoles' <=> <<d, k>> \in adminRoles
           /\ <<d, k>> \in granted' <=> <<d, k>> \in granted,
         RealmShaped(q)', Clear(q) => RealmStanding(q)'
  PROVE  Sound(q)
<1> USE DEF CInv
<1>1. /\ realmReq[q].name # Nobody /\ realmReq[q].name \in RealmNames /\ r.container # Nobody
      /\ RealmShaped(q) /\ (Clear(q) => RealmStanding(q))
      /\ Clear(q) \/ r.container \in blurred
  BY AtWork DEF RealmShaped
<1>2. /\ realmReq' \in [RealmRequests -> RealmRequest] /\ OthersStay(q)
      /\ Blurs' /\ HeldWhere' /\ IdsDrawn' /\ NamesOf(q)' = NamesOf(q)
  BY <1>1, LinksStay DEF NamesOf
<1>3. ContainersTypeOK'
  BY <1>2 DEF ContainersTypeOK
<1>4. ASSUME NEW n \in RealmNames \ (blurred \cup NamesOf(q)) PROVE Same(n)
  <2>1. containerRow[n] # r.container
    BY <1>1, <1>4, Foreign DEF Holds
  <2>2. containerRow[n] \in ContainerIds \/ containerRow[n] = Nobody
    BY DEF ContainersTypeOK
  <2>3. \A k \in AdminRoles : /\ <<Nobody, k>> \notin adminRoles /\ <<Nobody, k>> \notin adminRoles'
                              /\ <<Nobody, k>> \notin granted /\ <<Nobody, k>> \notin granted'
    BY RealmContainersAssumption DEF ContainersTypeOK
  <2> QED
    BY <2>1, <2>2, <2>3 DEF Same
<1>5. RolesHoused'
  <2> SUFFICES ASSUME NEW x \in adminRoles'
               PROVE  x[1] \in blurred \/ \E n \in RealmNames : containerRow[n] = x[1]
    BY DEF RolesHoused
  <2>1. CASE x[1] = r.container
    <3>1. Clear(q) => containerRow[realmReq[q].name] = r.container
      BY <1>1 DEF RealmStanding
    <3> QED
      BY <1>1, <2>1, <3>1
  <2>2. CASE x[1] # r.container
    <3>1. x = <<x[1], x[2]>> /\ x[1] \in ContainerIds /\ x[2] \in AdminRoles
      OBVIOUS
    <3>2. x \in adminRoles
      BY <2>2, <3>1
    <3> QED
      BY <3>2 DEF RolesHoused
  <2> QED
    BY <2>1, <2>2
<1>6. Clear(q)' => RealmStanding(q)'
  BY <1>2 DEF Clear
<1> QED
  BY <1>2, <1>3, <1>4, <1>5, <1>6 DEF Sound

\* A request that goes on under its names, or leaves them, whatever it writes.
LEMMA NamesKept ==
  ASSUME CInv, NEW q \in RealmRequests, NEW r \in RealmRequest,
         realmReq' = [realmReq EXCEPT ![q] = r],
         blurred \subseteq blurred', blurred' \ blurred \subseteq ContainerIds,
         \/ r.name = realmReq[q].name /\ r.to = realmReq[q].to
         \/ r.name = Nobody /\ r.to = Nobody,
         r.container \in {realmReq[q].container, Nobody},
         \A n \in RealmNames \cap blurred' : containerRow'[n] \in blurred' \cup {Nobody}
  PROVE  /\ realmReq' \in [RealmRequests -> RealmRequest] /\ OthersStay(q) /\ realmReq'[q] = r
         /\ NamesOf(q)' = {r.name, r.to} \ {Nobody} /\ NamesOf(q)' \in {NamesOf(q), {}}
         /\ \A o \in RealmRequests \ {q} : realmReq'[o] = realmReq[o] /\ NamesOf(o)' = NamesOf(o)
         /\ \A n \in RealmNames : n \in blurred' <=> n \in blurred
         /\ Blurs' /\ (Clear(q)' => Clear(q) \/ NamesOf(q)' = {})
<1> USE DEF CInv
<1>1. realmReq' \in [RealmRequests -> RealmRequest] /\ OthersStay(q) /\ realmReq'[q] = r
  BY DEF ContainersTypeOK, OthersStay
<1>2. NamesOf(q)' = {r.name, r.to} \ {Nobody} /\ NamesOf(q)' \in {NamesOf(q), {}}
  BY <1>1 DEF NamesOf
<1>3. \A o \in RealmRequests \ {q} : realmReq'[o] = realmReq[o] /\ NamesOf(o)' = NamesOf(o)
  BY <1>1 DEF OthersStay, NamesOf
<1>4. \A n \in RealmNames : n \in blurred' <=> n \in blurred
  BY RealmContainersAssumption
<1>5. \A o \in RealmRequests : NamesOf(o) \subseteq RealmNames
  BY NamesType
<1>6. \A o \in RealmRequests : NamesOf(o)' \subseteq blurred' \/ Clear(o)'
  BY <1>2, <1>3, <1>4, <1>5 DEF Blurs, Clear
<1>7. \A p, o \in RealmRequests : p # o => NamesOf(p)' \cap NamesOf(o)' \subseteq blurred'
  BY <1>2, <1>3 DEF Blurs
<1>8. \A o \in RealmRequests : Clear(o)' \/ realmReq'[o].container \in blurred' \cup {Nobody}
  BY <1>1, <1>2, <1>3, <1>4, <1>5 DEF Blurs, Clear
<1> QED
  BY <1>1, <1>2, <1>3, <1>4, <1>5, <1>6, <1>7, <1>8 DEF Blurs, Clear

\* Two requests that hold one realm or one container have met.
LEMMA MetTogether ==
  ASSUME CInv, NEW q \in RealmRequests, NEW o \in RealmRequests \ {q}, NEW n \in RealmNames,
         Holds(q, n), Holds(o, n)
  PROVE  NamesOf(q) \subseteq blurred /\ NamesOf(o) \subseteq blurred
<1> USE DEF CInv
<1>1. n \in NamesOf(q) \/ (n \in blurred /\ NamesOf(q) \subseteq blurred)
  BY DEF HeldWhere
<1>2. n \in NamesOf(o) \/ (n \in blurred /\ NamesOf(o) \subseteq blurred)
  BY DEF HeldWhere
<1>3. n \in NamesOf(q) /\ n \in NamesOf(o) => n \in blurred
  BY DEF Blurs
<1>4. n \in blurred
  BY <1>1, <1>2, <1>3
<1> QED
  BY <1>1, <1>2, <1>4 DEF Blurs, Clear

LEMMA EnsureContainerRolesSound ==
  ASSUME CInv, NEW q \in RealmRequests, EnsureContainerRoles(q)
  PROVE  Sound(q)
<1> USE DEF CInv
<1> DEFINE c == realmReq[q].container
<1>1. realmReq[q].step = "roles"
  BY DEF EnsureContainerRoles
<1>2. /\ realmReq[q] \in RealmRequest /\ RealmShaped(q) /\ (Clear(q) => RealmStanding(q))
      /\ c \in ContainerIds /\ realmReq[q].todo \in SUBSET AdminRoles
  BY <1>1, AtWork DEF RealmShaped, RealmRequest
<1>3. ASSUME NEW k \in realmReq[q].todo, adminRoles' = adminRoles \cup {<<c, k>>},
             realmReq' = [realmReq EXCEPT ![q].todo = @ \ {k}]
      PROVE  Sound(q)
  <2> DEFINE r == [realmReq[q] EXCEPT !.todo = @ \ {k}]
  <2>1. realmReq' = [realmReq EXCEPT ![q] = r]
    BY <1>3 DEF ContainersTypeOK
  <2>2. r \in RealmRequest /\ r.step = "roles" /\ r.name = realmReq[q].name /\ r.to = realmReq[q].to
        /\ r.id = realmReq[q].id /\ r.container = c /\ r.todo = realmReq[q].todo \ {k}
    BY <1>1, <1>2 DEF RealmRequest, RealmSteps
  <2> HIDE DEF r
  <2>3. realmReq'[q] = r
    BY <2>1 DEF ContainersTypeOK
  <2>4. RealmShaped(q)'
    BY <1>1, <1>2, <2>2, <2>3 DEF RealmShaped
  <2>5. ASSUME Clear(q) PROVE RealmStanding(q)'
    <3>1. \A j \in AdminRoles \ r.todo : <<c, j>> \in adminRoles'
      BY <1>1, <1>2, <1>3, <2>2, <2>5 DEF RealmStanding, HasRoles
    <3> QED
      BY <1>1, <1>2, <2>2, <2>3, <2>5, <3>1 DEF RealmStanding, EnsureContainerRoles, HasRoles
  <2>6. adminRoles' \in SUBSET (ContainerIds \X AdminRoles) /\ granted' \in SUBSET adminRoles'
    BY <1>2, <1>3 DEF EnsureContainerRoles, ContainersTypeOK
  <2> QED
    BY <1>1, <1>3, <2>1, <2>2, <2>4, <2>5, <2>6, RoleWriteSound DEF EnsureContainerRoles
<1>4. ASSUME realmReq[q].todo = {},
             realmReq' = [realmReq EXCEPT ![q].step = "compose", ![q].todo = AdminRoles], UNCHANGED adminRoles
      PROVE  Sound(q)
  <2> DEFINE r == [realmReq[q] EXCEPT !.step = "compose", !.todo = AdminRoles]
  <2>1. realmReq' = [realmReq EXCEPT ![q] = r]
    BY <1>4 DEF ContainersTypeOK
  <2>2. r \in RealmRequest /\ r.step = "compose" /\ r.name = realmReq[q].name /\ r.to = realmReq[q].to
        /\ r.id = realmReq[q].id /\ r.container = c /\ r.todo = AdminRoles
    BY <1>1, <1>2 DEF RealmRequest, RealmSteps
  <2> HIDE DEF r
  <2>3. realmReq'[q] = r
    BY <2>1 DEF ContainersTypeOK
  <2>4. RealmShaped(q)'
    BY <1>1, <1>2, <2>2, <2>3 DEF RealmShaped
  <2>5. ASSUME Clear(q) PROVE RealmStanding(q)'
    <3>1. \A j \in AdminRoles : <<c, j>> \in adminRoles'
      BY <1>1, <1>2, <1>4, <2>5 DEF RealmStanding, HasRoles
    <3> QED
      BY <1>1, <1>2, <2>2, <2>3, <2>5, <3>1 DEF RealmStanding, EnsureContainerRoles, HasRoles
  <2> QED
    BY <1>1, <1>4, <2>1, <2>2, <2>4, <2>5, AdvanceSound DEF EnsureContainerRoles
<1> QED
  BY <1>3, <1>4 DEF EnsureContainerRoles

LEMMA ComposeAdminSound ==
  ASSUME CInv, NEW q \in RealmRequests, ComposeAdmin(q)
  PROVE  Sound(q)
<1> USE DEF CInv
<1> DEFINE c == realmReq[q].container
<1>1. realmReq[q].step = "compose"
  BY DEF ComposeAdmin
<1>2. /\ realmReq[q] \in RealmRequest /\ RealmShaped(q) /\ (Clear(q) => RealmStanding(q))
      /\ c \in ContainerIds /\ realmReq[q].todo \in SUBSET AdminRoles /\ realmReq[q].name # Nobody
  BY <1>1, AtWork DEF RealmShaped, RealmRequest
<1>3. ASSUME NEW k \in realmReq[q].todo, <<c, k>> \in adminRoles, granted' = granted \cup {<<c, k>>},
             realmReq' = [realmReq EXCEPT ![q].todo = @ \ {k}], UNCHANGED blurred
      PROVE  Sound(q)
  <2> DEFINE r == [realmReq[q] EXCEPT !.todo = @ \ {k}]
  <2>1. realmReq' = [realmReq EXCEPT ![q] = r]
    BY <1>3 DEF ContainersTypeOK
  <2>2. r \in RealmRequest /\ r.step = "compose" /\ r.name = realmReq[q].name /\ r.to = realmReq[q].to
        /\ r.id = realmReq[q].id /\ r.container = c /\ r.todo = realmReq[q].todo \ {k}
    BY <1>1, <1>2 DEF RealmRequest, RealmSteps
  <2> HIDE DEF r
  <2>3. realmReq'[q] = r
    BY <2>1 DEF ContainersTypeOK
  <2>4. RealmShaped(q)'
    BY <1>1, <1>2, <2>2, <2>3 DEF RealmShaped
  <2>5. ASSUME Clear(q) PROVE RealmStanding(q)'
    <3>1. \A j \in AdminRoles \ r.todo : <<c, j>> \in granted'
      BY <1>1, <1>2, <1>3, <2>2, <2>5 DEF RealmStanding
    <3> QED
      BY <1>1, <1>2, <2>2, <2>3, <2>5, <3>1 DEF RealmStanding, ComposeAdmin, HasRoles
  <2>6. adminRoles' \in SUBSET (ContainerIds \X AdminRoles) /\ granted' \in SUBSET adminRoles'
    BY <1>2, <1>3 DEF ComposeAdmin, ContainersTypeOK
  <2> QED
    BY <1>1, <1>3, <2>1, <2>2, <2>4, <2>5, <2>6, RoleWriteSound DEF ComposeAdmin
<1>4. ASSUME Aborted(q), UNCHANGED granted
      PROVE  Sound(q)
  BY <1>2, <1>4, AbortSound DEF ComposeAdmin
<1>5. ASSUME realmReq[q].todo = {}, To(q, "mappings"), UNCHANGED <<granted, blurred>>
      PROVE  Sound(q)
  <2> DEFINE r == [realmReq[q] EXCEPT !.step = "mappings"]
  <2>1. realmReq' = [realmReq EXCEPT ![q] = r]
    BY <1>5 DEF ContainersTypeOK, To
  <2>2. r \in RealmRequest /\ r.step = "mappings" /\ r.name = realmReq[q].name /\ r.to = realmReq[q].to
        /\ r.id = realmReq[q].id /\ r.container = c
    BY <1>1, <1>2 DEF RealmRequest, RealmSteps
  <2> HIDE DEF r
  <2>3. realmReq'[q] = r
    BY <2>1 DEF ContainersTypeOK
  <2>4. RealmShaped(q)'
    BY <1>1, <1>2, <2>2, <2>3 DEF RealmShaped
  <2>5. ASSUME Clear(q) PROVE RealmStanding(q)'
    <3>1. \A j \in AdminRoles : <<c, j>> \in granted'
      BY <1>1, <1>2, <1>5, <2>5 DEF RealmStanding
    <3> QED
      BY <1>1, <1>2, <2>2, <2>3, <2>5, <3>1 DEF RealmStanding, ComposeAdmin, Granted
  <2> QED
    BY <1>1, <1>5, <2>1, <2>2, <2>4, <2>5, AdvanceSound DEF ComposeAdmin
<1> QED
  BY <1>3, <1>4, <1>5 DEF ComposeAdmin

LEMMA DropContainerRolesSound ==
  ASSUME CInv, NEW q \in RealmRequests, DropContainerRoles(q)
  PROVE  Sound(q)
<1> USE DEF CInv
<1> DEFINE c == realmReq[q].container
<1>1. realmReq[q].step = "drop"
  BY DEF DropContainerRoles
<1>2. /\ realmReq[q] \in RealmRequest /\ RealmShaped(q) /\ (Clear(q) => RealmStanding(q))
      /\ c \in ContainerIds /\ realmReq[q].todo \in SUBSET AdminRoles
  BY <1>1, AtWork DEF RealmShaped, RealmRequest
<1>3. ASSUME NEW k \in realmReq[q].todo, adminRoles' = adminRoles \ {<<c, k>>}, granted' = granted \ {<<c, k>>},
             realmReq' = [realmReq EXCEPT ![q].todo = @ \ {k}]
      PROVE  Sound(q)
  <2> DEFINE r == [realmReq[q] EXCEPT !.todo = @ \ {k}]
  <2>1. realmReq' = [realmReq EXCEPT ![q] = r]
    BY <1>3 DEF ContainersTypeOK
  <2>2. r \in RealmRequest /\ r.step = "drop" /\ r.name = realmReq[q].name /\ r.to = realmReq[q].to
        /\ r.id = realmReq[q].id /\ r.container = c /\ r.todo = realmReq[q].todo \ {k}
    BY <1>1, <1>2 DEF RealmRequest, RealmSteps
  <2> HIDE DEF r
  <2>3. realmReq'[q] = r
    BY <2>1 DEF ContainersTypeOK
  <2>4. RealmShaped(q)'
    BY <1>1, <1>2, <2>2, <2>3 DEF RealmShaped
  <2>5. ASSUME Clear(q) PROVE RealmStanding(q)'
    <3>1. \A j \in AdminRoles : <<c, j>> \in adminRoles' => j \in r.todo
      BY <1>1, <1>2, <1>3, <2>2, <2>5 DEF RealmStanding, OnlyRoles
    <3> QED
      BY <1>1, <1>2, <2>2, <2>3, <2>5, <3>1 DEF RealmStanding, DropContainerRoles, OnlyRoles
  <2>6. adminRoles' \in SUBSET (ContainerIds \X AdminRoles) /\ granted' \in SUBSET adminRoles'
    BY <1>3 DEF ContainersTypeOK
  <2> QED
    BY <1>1, <1>3, <2>1, <2>2, <2>4, <2>5, <2>6, RoleWriteSound DEF DropContainerRoles
<1>4. ASSUME realmReq[q].todo = {}, To(q, "dropClient"), UNCHANGED <<adminRoles, granted>>
      PROVE  Sound(q)
  <2> DEFINE r == [realmReq[q] EXCEPT !.step = "dropClient"]
  <2>1. realmReq' = [realmReq EXCEPT ![q] = r]
    BY <1>4 DEF ContainersTypeOK, To
  <2>2. r \in RealmRequest /\ r.step = "dropClient" /\ r.name = realmReq[q].name /\ r.to = realmReq[q].to
        /\ r.id = realmReq[q].id /\ r.container = c
    BY <1>1, <1>2 DEF RealmRequest, RealmSteps
  <2> HIDE DEF r
  <2>3. realmReq'[q] = r
    BY <2>1 DEF ContainersTypeOK
  <2>4. RealmShaped(q)'
    BY <1>1, <1>2, <2>2, <2>3 DEF RealmShaped
  <2>5. ASSUME Clear(q) PROVE RealmStanding(q)'
    <3>1. \A j \in AdminRoles : <<c, j>> \notin adminRoles'
      BY <1>1, <1>2, <1>4, <2>5 DEF RealmStanding, OnlyRoles
    <3> QED
      BY <1>1, <1>2, <2>2, <2>3, <2>5, <3>1 DEF RealmStanding, DropContainerRoles, OnlyRoles
  <2> QED
    BY <1>1, <1>4, <2>1, <2>2, <2>4, <2>5, AdvanceSound DEF DropContainerRoles
<1> QED
  BY <1>3, <1>4 DEF DropContainerRoles

LEMMA EnsureRealmSound ==
  ASSUME CInv, NEW q \in RealmRequests, EnsureRealm(q)
  PROVE  Sound(q)
<1> USE DEF CInv
<1> DEFINE n == realmReq[q].name
<1>1. realmReq[q].step = "row"
  BY DEF EnsureRealm
<1>2. /\ realmReq[q] \in RealmRequest /\ RealmShaped(q) /\ (Clear(q) => RealmStanding(q))
      /\ n \in RealmNames /\ n # Nobody /\ n \in NamesOf(q) /\ realmReq[q].to = Nobody
  BY <1>1, AtWork DEF RealmShaped
<1>3. ASSUME realmRow[n] = Nobody, NEW id \in undrawn \cap RealmIds,
             realmRow' = [realmRow EXCEPT ![n] = id], undrawn' = undrawn \ {id},
             realmReq' = [realmReq EXCEPT ![q].step = "seed", ![q].id = id]
      PROVE  Sound(q)
  <2> DEFINE r == [realmReq[q] EXCEPT !.step = "seed", !.id = id]
  <2>1. realmReq' = [realmReq EXCEPT ![q] = r]
    BY <1>3 DEF ContainersTypeOK
  <2>2. r \in RealmRequest /\ r.step = "seed" /\ r.name = realmReq[q].name /\ r.to = realmReq[q].to
        /\ r.id = id /\ r.container = realmReq[q].container
    BY <1>1, <1>2 DEF RealmRequest, RealmSteps
  <2> HIDE DEF r
  <2>3. UNCHANGED <<containerRow, adminRoles, granted, blurred>>
    BY DEF EnsureRealm
  <2>4. /\ realmReq' \in [RealmRequests -> RealmRequest] /\ OthersStay(q) /\ realmReq'[q] = r
        /\ \A o \in RealmRequests \ {q} : realmReq'[o] = realmReq[o] /\ NamesOf(o)' = NamesOf(o)
        /\ Blurs'
    <3>1. \A k \in RealmNames \cap blurred' : containerRow'[k] \in blurred' \cup {Nobody}
      BY <2>3 DEF Blurs
    <3> QED
      BY <2>1, <2>2, <2>3, <3>1, NamesKept
  <2>5. NamesOf(q)' = NamesOf(q)
    BY <2>2, <2>4 DEF NamesOf
  <2>6. id # Nobody /\ \A k \in RealmNames : realmRow[k] # id
    BY <1>3, RealmContainersAssumption DEF IdsDrawn
  <2>7. ContainersTypeOK'
    BY <1>2, <1>3, <2>3, <2>4, <2>6 DEF ContainersTypeOK
  <2>8. HeldWhere'
    <3>1. ASSUME NEW o \in RealmRequests, NEW k \in RealmNames, Holds(o, k)'
          PROVE  k \in NamesOf(o)' \/ (k \in blurred' /\ NamesOf(o)' \subseteq blurred')
      <4>1. CASE k = n /\ o = q
        BY <1>2, <2>5, <4>1
      <4>2. CASE k = n /\ o # q
        <5>1. Holds(o, k)
          BY <1>3, <2>3, <2>4, <3>1, <4>2 DEF Holds, IdsDrawn, ContainersTypeOK
        <5> QED
          BY <2>3, <2>4, <4>2, <5>1 DEF HeldWhere
      <4>3. CASE k # n
        <5>1. realmRow'[k] = realmRow[k]
          BY <1>3, <4>3 DEF ContainersTypeOK
        <5>2. Holds(o, k)
          BY <1>3, <2>2, <2>3, <2>4, <2>6, <3>1, <5>1 DEF Holds
        <5> QED
          BY <2>3, <2>4, <2>5, <5>2 DEF HeldWhere
      <4> QED
        BY <4>1, <4>2, <4>3
    <3> QED
      BY <3>1 DEF HeldWhere
  <2>9. IdsDrawn'
    <3>1. \A k \in RealmNames : realmRow'[k] \notin undrawn' /\ containerRow'[k] \notin undrawn'
      BY <1>3, <2>3 DEF IdsDrawn, ContainersTypeOK
    <3>2. \A o \in RealmRequests : realmReq'[o].id \notin undrawn' /\ realmReq'[o].container \notin undrawn'
      BY <1>3, <2>2, <2>4 DEF IdsDrawn
    <3> QED
      BY <3>1, <3>2 DEF IdsDrawn
  <2>10. \A k \in RealmNames \ (blurred \cup NamesOf(q)) : Same(k)
    BY <1>2, <1>3, <2>3 DEF Same, ContainersTypeOK
  <2>11. RealmShaped(q)'
    BY <1>2, <2>2, <2>4, <2>6 DEF RealmShaped
  <2>12. ASSUME Clear(q)' PROVE RealmStanding(q)'
    <3>1. Settled(n)
      BY <1>1, <1>2, <2>3, <2>5, <2>12 DEF RealmStanding, Clear
    <3>2. containerRow'[n] = Nobody /\ realmRow'[n] = id
      BY <1>2, <1>3, <2>3, <3>1 DEF Settled, ContainersTypeOK
    <3> QED
      BY <2>2, <2>4, <3>2 DEF RealmStanding
  <2> QED
    BY <2>3, <2>4, <2>5, <2>7, <2>8, <2>9, <2>10, <2>11, <2>12 DEF Sound, RolesHoused
<1>4. ASSUME realmRow[n] # Nobody, UNCHANGED <<realmRow, undrawn>>,
             realmReq' = [realmReq EXCEPT ![q].step = "seed", ![q].id = realmRow[n]]
      PROVE  Sound(q)
  <2> DEFINE r == [realmReq[q] EXCEPT !.step = "seed", !.id = realmRow[n]]
  <2>1. realmReq' = [realmReq EXCEPT ![q] = r]
    BY <1>4 DEF ContainersTypeOK
  <2>2. r \in RealmRequest /\ r.step = "seed" /\ r.name = realmReq[q].name /\ r.to = realmReq[q].to
        /\ r.id = realmRow[n] /\ r.container = realmReq[q].container
    BY <1>1, <1>2 DEF RealmRequest, RealmSteps, ContainersTypeOK
  <2> HIDE DEF r
  <2>3. realmReq'[q] = r
    BY <2>1 DEF ContainersTypeOK
  <2>4. RealmShaped(q)'
    BY <1>2, <1>4, <2>2, <2>3 DEF RealmShaped
  <2>5. ASSUME Clear(q) PROVE RealmStanding(q)'
    <3>1. containerRow[n] # Nobody => Granted(containerRow[n])
      BY <1>1, <1>2, <2>5 DEF RealmStanding, Settled
    <3>2. UNCHANGED <<containerRow, granted>>
      BY DEF EnsureRealm
    <3>3. realmRow'[r.name] = r.id
      BY <1>4, <2>2
    <3>4. containerRow'[r.name] # Nobody => \A k \in AdminRoles : <<containerRow'[r.name], k>> \in granted'
      BY <2>2, <3>1, <3>2 DEF Granted
    <3> QED
      BY <2>2, <2>3, <3>3, <3>4 DEF RealmStanding, Granted
  <2> QED
    BY <1>1, <1>4, <2>1, <2>2, <2>4, <2>5, AdvanceSound DEF EnsureRealm
<1> QED
  BY <1>3, <1>4 DEF EnsureRealm

LEMMA EnsureContainerSound ==
  ASSUME CInv, NEW q \in RealmRequests, EnsureContainer(q)
  PROVE  Sound(q)
<1> USE DEF CInv
<1> DEFINE n == realmReq[q].name
           r == [realmReq[q] EXCEPT !.step = "lookup"]
<1>1. realmReq[q].step = "client"
  BY DEF EnsureContainer
<1>2. /\ realmReq[q] \in RealmRequest /\ RealmShaped(q) /\ (Clear(q) => RealmStanding(q))
      /\ n \in RealmNames /\ n # Nobody /\ n \in NamesOf(q) /\ realmReq[q].to = Nobody
  BY <1>1, AtWork DEF RealmShaped
<1>3. realmReq' = [realmReq EXCEPT ![q] = r]
  BY DEF EnsureContainer, To, ContainersTypeOK
<1>4. r \in RealmRequest /\ r.step = "lookup" /\ r.name = realmReq[q].name /\ r.to = realmReq[q].to
      /\ r.id = realmReq[q].id /\ r.container = realmReq[q].container
  BY <1>1, <1>2 DEF RealmRequest, RealmSteps
<1> HIDE DEF r
<1>5. realmReq'[q] = r /\ UNCHANGED <<realmRow, adminRoles, granted>>
  BY <1>3 DEF ContainersTypeOK, EnsureContainer
<1>6. RealmShaped(q)'
  BY <1>1, <1>2, <1>4, <1>5 DEF RealmShaped
<1>7. ASSUME containerRow[n] = Nobody, NEW c \in undrawn \cap ContainerIds,
             containerRow' = [containerRow EXCEPT ![n] = c], undrawn' = undrawn \ {c},
             blurred' = IF n \in blurred THEN blurred \cup {c} ELSE blurred
      PROVE  Sound(q)
  <2>1. containerRow'[n] = c /\ \A k \in RealmNames \ {n} : containerRow'[k] = containerRow[k]
    BY <1>2, <1>7 DEF ContainersTypeOK
  <2>2. c # Nobody /\ c \notin RealmNames /\ \A k \in RealmNames : containerRow[k] # c
    BY <1>7, RealmContainersAssumption DEF IdsDrawn
  <2>3. blurred \subseteq blurred' /\ blurred' \ blurred \subseteq ContainerIds
    BY <1>7
  <2>4. \A k \in RealmNames \cap blurred' : containerRow'[k] \in blurred' \cup {Nobody}
    <3> SUFFICES ASSUME NEW k \in RealmNames \cap blurred' PROVE containerRow'[k] \in blurred' \cup {Nobody}
      OBVIOUS
    <3>1. k \in blurred
      BY <1>7, <2>2
    <3>2. CASE k = n
      BY <1>7, <2>1, <3>1, <3>2
    <3>3. CASE k # n
      BY <2>1, <2>3, <3>1, <3>3 DEF Blurs
    <3> QED
      BY <3>2, <3>3
  <2>5. /\ realmReq' \in [RealmRequests -> RealmRequest] /\ OthersStay(q)
        /\ \A o \in RealmRequests \ {q} : realmReq'[o] = realmReq[o] /\ NamesOf(o)' = NamesOf(o)
        /\ Blurs'
    BY <1>3, <1>4, <2>3, <2>4, NamesKept
  <2>6. NamesOf(q)' = NamesOf(q)
    BY <1>4, <1>5 DEF NamesOf
  <2>7. ContainersTypeOK'
    BY <1>2, <1>5, <1>7, <2>1, <2>2, <2>5 DEF ContainersTypeOK
  <2>8. HeldWhere'
    <3>1. ASSUME NEW o \in RealmRequests, NEW k \in RealmNames, Holds(o, k)'
          PROVE  Holds(o, k)
      <4>1. realmReq'[o].id = realmReq[o].id /\ realmReq'[o].container = realmReq[o].container
        BY <1>4, <1>5, <2>5
      <4>2. realmReq[o].container # c
        BY <1>7 DEF IdsDrawn
      <4> QED
        BY <1>5, <2>1, <3>1, <4>1, <4>2 DEF Holds
    <3>2. \A o \in RealmRequests : NamesOf(o)' = NamesOf(o)
      BY <2>5, <2>6
    <3> QED
      BY <2>3, <3>1, <3>2 DEF HeldWhere
  <2>9. IdsDrawn'
    <3>1. \A k \in RealmNames : realmRow'[k] \notin undrawn' /\ containerRow'[k] \notin undrawn'
      BY <1>5, <1>7, <2>1 DEF IdsDrawn
    <3>2. \A o \in RealmRequests : realmReq'[o].id \notin undrawn' /\ realmReq'[o].container \notin undrawn'
      BY <1>4, <1>5, <1>7, <2>5 DEF IdsDrawn
    <3> QED
      BY <3>1, <3>2 DEF IdsDrawn
  <2>10. \A k \in RealmNames \ (blurred \cup NamesOf(q)) : Same(k)
    BY <1>2, <1>5, <2>1 DEF Same
  <2>11. RolesHoused'
    <3> SUFFICES ASSUME NEW x \in adminRoles
                 PROVE  x[1] \in blurred' \/ \E k \in RealmNames : containerRow'[k] = x[1]
      BY <1>5 DEF RolesHoused
    <3>1. x[1] # Nobody
      BY RealmContainersAssumption DEF ContainersTypeOK
    <3> QED
      BY <1>7, <2>1, <2>3, <3>1 DEF RolesHoused
  <2>12. ASSUME Clear(q)' PROVE RealmStanding(q)'
    <3>1. Clear(q)
      BY <2>3, <2>6, <2>12 DEF Clear
    <3>2. realmRow[n] = r.id
      BY <1>1, <1>2, <1>4, <3>1 DEF RealmStanding
    <3> QED
      BY <1>4, <1>5, <2>1, <2>2, <3>2 DEF RealmStanding
  <2> QED
    BY <1>6, <2>3, <2>5, <2>6, <2>7, <2>8, <2>9, <2>10, <2>11, <2>12 DEF Sound
<1>8. ASSUME containerRow[n] # Nobody, UNCHANGED <<containerRow, undrawn, blurred>>
      PROVE  Sound(q)
  <2>1. ASSUME Clear(q) PROVE RealmStanding(q)'
    <3>1. realmRow[n] = r.id
      BY <1>1, <1>2, <1>4, <2>1 DEF RealmStanding
    <3> QED
      BY <1>4, <1>5, <1>8, <3>1 DEF RealmStanding
  <2> QED
    BY <1>1, <1>3, <1>4, <1>5, <1>6, <1>8, <2>1, AdvanceSound
<1> QED
  BY <1>7, <1>8 DEF EnsureContainer

LEMMA DropContainerSound ==
  ASSUME CInv, NEW q \in RealmRequests, DropContainer(q)
  PROVE  Sound(q)
<1> USE DEF CInv
<1> DEFINE n == realmReq[q].name
           c == realmReq[q].container
           r == [realmReq[q] EXCEPT !.step = "dropRow"]
<1>1. realmReq[q].step = "dropClient"
  BY DEF DropContainer
<1>2. /\ realmReq[q] \in RealmRequest /\ RealmShaped(q) /\ (Clear(q) => RealmStanding(q))
      /\ n \in RealmNames /\ n # Nobody /\ n \in NamesOf(q) /\ realmReq[q].to = Nobody
      /\ c # Nobody /\ (Clear(q) \/ c \in blurred)
  BY <1>1, AtWork DEF RealmShaped
<1>3. realmReq' = [realmReq EXCEPT ![q] = r] /\ UNCHANGED <<realmRow, adminRoles, granted, undrawn, blurred>>
  BY DEF DropContainer, To, ContainersTypeOK
<1>4. r \in RealmRequest /\ r.step = "dropRow" /\ r.name = realmReq[q].name /\ r.to = realmReq[q].to
      /\ r.id = realmReq[q].id /\ r.container = realmReq[q].container
  BY <1>1, <1>2 DEF RealmRequest, RealmSteps
<1> HIDE DEF r
<1>5. \A k \in RealmNames : containerRow'[k] = IF containerRow[k] = c THEN Nobody ELSE containerRow[k]
  BY DEF DropContainer
<1>6. /\ realmReq' \in [RealmRequests -> RealmRequest] /\ OthersStay(q) /\ realmReq'[q] = r
      /\ \A o \in RealmRequests \ {q} : realmReq'[o] = realmReq[o] /\ NamesOf(o)' = NamesOf(o)
      /\ Blurs'
  <2>1. \A k \in RealmNames \cap blurred' : containerRow'[k] \in blurred' \cup {Nobody}
    BY <1>3, <1>5 DEF Blurs
  <2> QED
    BY <1>3, <1>4, <2>1, NamesKept
<1>7. NamesOf(q)' = NamesOf(q)
  BY <1>4, <1>6 DEF NamesOf
<1>8. ContainersTypeOK'
  <2>1. containerRow' \in [RealmNames -> ContainerIds \cup {Nobody}]
    BY DEF DropContainer, ContainersTypeOK
  <2> QED
    BY <1>3, <1>5, <1>6, <2>1 DEF ContainersTypeOK
<1>9. HeldWhere'
  <2>1. ASSUME NEW o \in RealmRequests, NEW k \in RealmNames, Holds(o, k)'
        PROVE  Holds(o, k)
    BY <1>3, <1>4, <1>5, <1>6, <2>1 DEF Holds
  <2>2. \A o \in RealmRequests : NamesOf(o)' = NamesOf(o)
    BY <1>6, <1>7
  <2> QED
    BY <1>3, <2>1, <2>2 DEF HeldWhere
<1>10. IdsDrawn'
  <2>1. Nobody \notin undrawn
    BY RealmContainersAssumption DEF ContainersTypeOK
  <2> QED
    BY <1>3, <1>4, <1>5, <1>6, <2>1 DEF IdsDrawn
<1>11. ASSUME NEW k \in RealmNames \ (blurred \cup NamesOf(q)) PROVE Same(k)
  <2>1. containerRow[k] # c
    BY <1>2, Foreign DEF Holds
  <2> QED
    BY <1>3, <1>5, <2>1 DEF Same
<1>12. RolesHoused'
  <2> SUFFICES ASSUME NEW x \in adminRoles
               PROVE  x[1] \in blurred \/ \E k \in RealmNames : containerRow'[k] = x[1]
    BY <1>3 DEF RolesHoused
  <2>1. x = <<x[1], x[2]>> /\ x[2] \in AdminRoles
    BY DEF ContainersTypeOK
  <2>2. CASE x[1] = c
    BY <1>1, <1>2, <2>1, <2>2 DEF RealmStanding, OnlyRoles
  <2>3. CASE x[1] # c
    BY <1>5, <2>3 DEF RolesHoused
  <2> QED
    BY <2>2, <2>3
<1>13. RealmShaped(q)'
  BY <1>1, <1>2, <1>4, <1>6 DEF RealmShaped
<1>14. ASSUME Clear(q)' PROVE RealmStanding(q)'
  <2>1. Clear(q)
    BY <1>3, <1>7, <1>14 DEF Clear
  <2>2. realmRow[n] = r.id /\ containerRow'[n] = Nobody
    BY <1>1, <1>2, <1>4, <1>5, <2>1 DEF RealmStanding
  <2> QED
    BY <1>3, <1>4, <1>6, <2>2 DEF RealmStanding
<1> QED
  BY <1>3, <1>6, <1>7, <1>8, <1>9, <1>10, <1>11, <1>12, <1>13, <1>14 DEF Sound

LEMMA DropRealmSound ==
  ASSUME CInv, NEW q \in RealmRequests, DropRealm(q)
  PROVE  Sound(q)
<1> USE DEF CInv
<1> DEFINE n == realmReq[q].name
           id == realmReq[q].id
<1>1. realmReq[q].step = "dropRow"
  BY DEF DropRealm
<1>2. /\ realmReq[q] \in RealmRequest /\ RealmShaped(q) /\ (Clear(q) => RealmStanding(q))
      /\ n \in RealmNames /\ NamesOf(q) = {n} /\ id # Nobody
  BY <1>1, AtWork DEF RealmShaped, NamesOf
<1>3. realmReq' = [realmReq EXCEPT ![q] = OverRealmRequest]
      /\ UNCHANGED <<containerRow, adminRoles, granted, undrawn, blurred>>
  BY DEF DropRealm, Answered
<1>4. \A k \in RealmNames : realmRow'[k] = IF realmRow[k] = id THEN Nobody ELSE realmRow[k]
  BY DEF DropRealm
<1>5. /\ realmReq' \in [RealmRequests -> RealmRequest] /\ OthersStay(q) /\ realmReq'[q] = OverRealmRequest
      /\ \A o \in RealmRequests \ {q} : realmReq'[o] = realmReq[o] /\ NamesOf(o)' = NamesOf(o)
      /\ NamesOf(q)' = {OverRealmRequest.name, OverRealmRequest.to} \ {Nobody} /\ Blurs'
  <2>1. \A k \in RealmNames \cap blurred' : containerRow'[k] \in blurred' \cup {Nobody}
    BY <1>3 DEF Blurs
  <2> QED
    BY <1>3, <2>1, NamesKept, OverFacts
<1>6. NamesOf(q)' = {}
  BY <1>5, OverFacts
<1>7. ContainersTypeOK'
  <2>1. realmRow' \in [RealmNames -> RealmIds \cup {Nobody}]
    BY DEF DropRealm, ContainersTypeOK
  <2> QED
    BY <1>3, <1>4, <1>5, <2>1 DEF ContainersTypeOK
<1>8. HeldWhere'
  <2>1. ASSUME NEW o \in RealmRequests, NEW k \in RealmNames, Holds(o, k)'
        PROVE  o # q /\ Holds(o, k)
    BY <1>3, <1>4, <1>5, <2>1, OverFacts DEF Holds
  <2> QED
    BY <1>3, <1>5, <2>1 DEF HeldWhere
<1>9. IdsDrawn'
  <2>1. Nobody \notin undrawn
    BY RealmContainersAssumption DEF ContainersTypeOK
  <2> QED
    BY <1>3, <1>4, <1>5, <2>1, OverFacts DEF IdsDrawn
<1>10. ASSUME NEW k \in RealmNames \ (blurred \cup NamesOf(q)) PROVE Same(k)
  <2>1. realmRow[k] # id
    BY <1>2, Foreign DEF Holds
  <2> QED
    BY <1>3, <1>4, <2>1 DEF Same
<1>11. RealmShaped(q)' /\ RealmStanding(q)'
  BY <1>5, OverFacts DEF RealmShaped, RealmStanding
<1>13. \A k \in NamesOf(q) \ blurred' : Settled(k)'
  <2> SUFFICES ASSUME NEW k \in NamesOf(q) \ blurred' PROVE Settled(k)'
    OBVIOUS
  <2>1. k = n
    BY <1>2
  <2>2. Clear(q)
    BY <1>2, <1>3, <2>1 DEF Clear
  <2>3. realmRow'[k] = Nobody /\ containerRow'[k] = Nobody
    BY <1>1, <1>2, <1>3, <1>4, <2>1, <2>2 DEF RealmStanding
  <2> QED
    BY <2>3 DEF Settled
<1> QED
  BY <1>3, <1>5, <1>6, <1>7, <1>8, <1>9, <1>10, <1>11, <1>13 DEF Sound, RolesHoused

LEMMA WriteRealmSound ==
  ASSUME CInv, NEW q \in RealmRequests, WriteRealm(q)
  PROVE  Sound(q)
<1> USE DEF CInv
<1> DEFINE n == realmReq[q].name
           id == realmReq[q].id
<1>1. realmReq[q].step = "write"
  BY DEF WriteRealm
<1>2. /\ realmReq[q] \in RealmRequest /\ RealmShaped(q) /\ (Clear(q) => RealmStanding(q))
      /\ n \in RealmNames /\ n # Nobody /\ id # Nobody /\ id \in RealmIds /\ realmReq[q].to = Nobody
      /\ NamesOf(q) = {n}
  BY <1>1, AtWork DEF RealmShaped, NamesOf, RealmRequest
<1>3. realmReq' = [realmReq EXCEPT ![q] = OverRealmRequest]
      /\ UNCHANGED <<containerRow, adminRoles, granted, undrawn, blurred>>
  BY DEF WriteRealm, Answered
<1>4. CASE realmRow' = realmRow
  <2>1. Clear(q) => Settled(n)
    BY <1>1, <1>2 DEF RealmStanding
  <2> QED
    BY <1>1, <1>2, <1>3, <1>4, <2>1, AnswerSound
<1>5. CASE realmRow' # realmRow
  <2>1. RealmLives(id) /\ realmRow[n] \in {Nobody, id} /\ realmRow' = Under(id, n)
    BY <1>5 DEF WriteRealm
  <2>2. /\ realmRow' \in [RealmNames -> RealmIds \cup {Nobody}] /\ realmRow'[n] = id
        /\ \A k \in RealmNames \ {n} : realmRow'[k] = IF realmRow[k] = id THEN Nobody ELSE realmRow[k]
    BY <1>2, <2>1 DEF Under, ContainersTypeOK
  <2>3. realmRow[n] # id
    <3>1. ASSUME realmRow[n] = id PROVE \A k \in RealmNames : realmRow'[k] = realmRow[k]
      BY <1>2, <2>2, <3>1 DEF ContainersTypeOK
    <3>2. realmRow \in [RealmNames -> RealmIds \cup {Nobody}]
      BY DEF ContainersTypeOK
    <3> QED
      BY <1>5, <2>2, <3>1, <3>2
  <2>4. ~Clear(q) /\ n \in blurred
    BY <1>1, <1>2, <2>3 DEF RealmStanding, Blurs
  <2>5. /\ realmReq' \in [RealmRequests -> RealmRequest] /\ OthersStay(q) /\ realmReq'[q] = OverRealmRequest
        /\ \A o \in RealmRequests \ {q} : realmReq'[o] = realmReq[o] /\ NamesOf(o)' = NamesOf(o)
        /\ NamesOf(q)' = {OverRealmRequest.name, OverRealmRequest.to} \ {Nobody} /\ Blurs'
    <3>1. \A k \in RealmNames \cap blurred' : containerRow'[k] \in blurred' \cup {Nobody}
      BY <1>3 DEF Blurs
    <3> QED
      BY <1>3, <3>1, NamesKept, OverFacts
  <2>6. NamesOf(q)' = {}
    BY <2>5, OverFacts
  <2>7. ContainersTypeOK'
    BY <1>3, <2>2, <2>5 DEF ContainersTypeOK
  <2>8. HeldWhere'
    <3>1. ASSUME NEW o \in RealmRequests, NEW k \in RealmNames, Holds(o, k)'
          PROVE  k \in NamesOf(o)' \/ (k \in blurred' /\ NamesOf(o)' \subseteq blurred')
      <4>1. o # q
        BY <2>5, <3>1, OverFacts DEF Holds
      <4>2. realmReq'[o].id = realmReq[o].id /\ realmReq'[o].container = realmReq[o].container
            /\ NamesOf(o)' = NamesOf(o)
        BY <2>5, <4>1
      <4>3. CASE Holds(o, k)
        BY <1>3, <4>2, <4>3 DEF HeldWhere
      <4>4. CASE ~Holds(o, k)
        <5>1. k = n /\ realmReq[o].id = id
          BY <1>3, <2>2, <3>1, <4>2, <4>4 DEF Holds
        <5>2. PICK j \in RealmNames : realmRow[j] = id
          BY <2>1 DEF RealmLives
        <5>3. Holds(q, j) /\ Holds(o, j)
          BY <1>2, <5>1, <5>2 DEF Holds
        <5>4. NamesOf(o) \subseteq blurred
          BY <4>1, <5>3, MetTogether
        <5> QED
          BY <1>3, <2>4, <4>2, <5>1, <5>4
      <4> QED
        BY <4>3, <4>4
    <3> QED
      BY <3>1 DEF HeldWhere
  <2>9. IdsDrawn'
    <3>1. Nobody \notin undrawn
      BY RealmContainersAssumption DEF ContainersTypeOK
    <3>2. \A k \in RealmNames : realmRow'[k] \notin undrawn' /\ containerRow'[k] \notin undrawn'
      BY <1>3, <2>2, <3>1 DEF IdsDrawn
    <3> QED
      BY <1>3, <2>5, <3>1, <3>2, OverFacts DEF IdsDrawn
  <2>10. ASSUME NEW k \in RealmNames \ (blurred \cup NamesOf(q)) PROVE Same(k)
    <3>1. realmRow[k] # id /\ k # n
      BY <1>2, Foreign DEF Holds
    <3> QED
      BY <1>3, <2>2, <3>1 DEF Same
  <2>11. RealmShaped(q)' /\ RealmStanding(q)'
    BY <2>5, OverFacts DEF RealmShaped, RealmStanding
  <2>12. \A k \in NamesOf(q) : k \in blurred'
    BY <1>2, <1>3, <2>4
  <2> QED
    BY <1>3, <2>5, <2>6, <2>7, <2>8, <2>9, <2>10, <2>11, <2>12 DEF Sound, RolesHoused
<1> QED
  BY <1>4, <1>5

LEMMA RenameRowSound ==
  ASSUME CInv, NEW q \in RealmRequests, RenameRow(q)
  PROVE  Sound(q)
<1> USE DEF CInv
<1> DEFINE n == realmReq[q].name
           m == realmReq[q].to
           id == realmReq[q].id
<1>1. realmReq[q].step = "rename"
  BY DEF RenameRow
<1>2. /\ realmReq[q] \in RealmRequest /\ RealmShaped(q) /\ (Clear(q) => RealmStanding(q))
      /\ n \in RealmNames /\ m \in RealmNames /\ n # m /\ NamesOf(q) = {n, m} /\ id # Nobody
      /\ n # Nobody /\ m # Nobody
  BY <1>1, AtWork DEF RealmShaped, NamesOf
<1>3. CASE ~(RealmLives(id) /\ realmRow[m] \in {Nobody, id})
  <2>1. Clear(q) => Settled(n) /\ Settled(m)
    BY <1>1, <1>2 DEF RealmStanding
  <2> QED
    BY <1>1, <1>3, <2>1, AnswerSound DEF RenameRow
<1>4. CASE RealmLives(id) /\ realmRow[m] \in {Nobody, id}
  <2> DEFINE r == [realmReq[q] EXCEPT !.step = "moved"]
  <2>1. realmReq' = [realmReq EXCEPT ![q] = r] /\ UNCHANGED <<containerRow, adminRoles, granted, undrawn, blurred>>
    BY <1>4 DEF RenameRow, To, ContainersTypeOK
  <2>2. r \in RealmRequest /\ r.step = "moved" /\ r.name = n /\ r.to = m
        /\ r.id = id /\ r.container = realmReq[q].container
    BY <1>1, <1>2 DEF RealmRequest, RealmSteps
  <2> HIDE DEF r
  <2>3. /\ realmRow'[m] = id
        /\ \A k \in RealmNames \ {m} : realmRow'[k] = IF realmRow[k] = id THEN Nobody ELSE realmRow[k]
    BY <1>2, <1>4 DEF RenameRow, Under
  <2>4. /\ realmReq' \in [RealmRequests -> RealmRequest] /\ OthersStay(q) /\ realmReq'[q] = r
        /\ \A o \in RealmRequests \ {q} : realmReq'[o] = realmReq[o] /\ NamesOf(o)' = NamesOf(o)
        /\ Blurs'
    <3>1. \A k \in RealmNames \cap blurred' : containerRow'[k] \in blurred' \cup {Nobody}
      BY <2>1 DEF Blurs
    <3> QED
      BY <2>1, <2>2, <3>1, NamesKept
  <2>5. NamesOf(q)' = NamesOf(q)
    BY <2>2, <2>4 DEF NamesOf
  <2>6. ContainersTypeOK'
    <3>1. realmRow' \in [RealmNames -> RealmIds \cup {Nobody}]
      BY <1>2, <1>4 DEF RenameRow, Under, ContainersTypeOK, RealmRequest
    <3> QED
      BY <2>1, <2>3, <2>4, <3>1 DEF ContainersTypeOK
  <2>7. HeldWhere'
    <3>1. ASSUME NEW o \in RealmRequests, NEW k \in RealmNames, Holds(o, k)'
          PROVE  k \in NamesOf(o)' \/ (k \in blurred' /\ NamesOf(o)' \subseteq blurred')
      <4>1. realmReq'[o].id = realmReq[o].id /\ realmReq'[o].container = realmReq[o].container
            /\ NamesOf(o)' = NamesOf(o)
        BY <2>2, <2>4, <2>5
      <4>2. CASE Holds(o, k)
        BY <2>1, <4>1, <4>2 DEF HeldWhere
      <4>3. CASE ~Holds(o, k)
        <5>1. k = m /\ realmReq[o].id = id
          BY <2>1, <2>3, <3>1, <4>1, <4>3 DEF Holds
        <5>2. CASE o = q
          BY <1>2, <2>5, <5>1, <5>2
        <5>3. CASE o # q
          <6>1. PICK j \in RealmNames : realmRow[j] = id
            BY <1>4 DEF RealmLives
          <6>2. Holds(q, j) /\ Holds(o, j)
            BY <1>2, <5>1, <6>1 DEF Holds
          <6>3. NamesOf(q) \subseteq blurred /\ NamesOf(o) \subseteq blurred
            BY <5>3, <6>2, MetTogether
          <6> QED
            BY <1>2, <2>1, <4>1, <5>1, <6>3
        <5> QED
          BY <5>2, <5>3
      <4> QED
        BY <4>2, <4>3
    <3> QED
      BY <3>1 DEF HeldWhere
  <2>8. IdsDrawn'
    <3>1. Nobody \notin undrawn
      BY RealmContainersAssumption DEF ContainersTypeOK
    <3>2. \A k \in RealmNames : realmRow'[k] \notin undrawn' /\ containerRow'[k] \notin undrawn'
      BY <2>1, <2>3, <3>1 DEF IdsDrawn
    <3> QED
      BY <2>1, <2>2, <2>4, <3>2 DEF IdsDrawn
  <2>9. ASSUME NEW k \in RealmNames \ (blurred \cup NamesOf(q)) PROVE Same(k)
    <3>1. realmRow[k] # id /\ k # m
      BY <1>2, Foreign DEF Holds
    <3> QED
      BY <2>1, <2>3, <3>1 DEF Same
  <2>10. RealmShaped(q)'
    BY <1>1, <1>2, <2>2, <2>4 DEF RealmShaped
  <2>11. ASSUME Clear(q)' PROVE RealmStanding(q)'
    <3>1. Clear(q)
      BY <2>1, <2>5, <2>11 DEF Clear
    <3>2. realmRow[n] = id /\ Settled(n) /\ Settled(m)
      BY <1>1, <1>2, <3>1 DEF RealmStanding
    <3>3. realmRow[m] = Nobody
      BY <1>2, <1>4, <3>2 DEF ContainersTypeOK
    <3>4. realmRow'[r.name] = Nobody /\ realmRow'[r.to] = r.id /\ containerRow'[r.to] = Nobody
      BY <1>2, <2>1, <2>2, <2>3, <3>2, <3>3 DEF Settled
    <3>5. containerRow'[r.name] # Nobody /\ \A k \in AdminRoles : <<containerRow'[r.name], k>> \in granted'
      BY <1>2, <2>1, <2>2, <3>2 DEF Settled, Granted
    <3> QED
      BY <2>2, <2>4, <3>4, <3>5 DEF RealmStanding, Granted
  <2> QED
    BY <2>1, <2>4, <2>5, <2>6, <2>7, <2>8, <2>9, <2>10, <2>11 DEF Sound, RolesHoused
<1> QED
  BY <1>3, <1>4

LEMMA MoveContainerSound ==
  ASSUME CInv, NEW q \in RealmRequests, MoveContainer(q)
  PROVE  Sound(q)
<1> USE DEF CInv
<1> DEFINE n == realmReq[q].name
           m == realmReq[q].to
           c == realmReq[q].container
           found == containerRow[m] \in {Nobody, c} /\ \E k \in RealmNames : containerRow[k] = c
<1>1. realmReq[q].step = "move"
  BY DEF MoveContainer
<1>2. /\ realmReq[q] \in RealmRequest /\ RealmShaped(q) /\ (Clear(q) => RealmStanding(q))
      /\ n \in RealmNames /\ m \in RealmNames /\ n # m /\ NamesOf(q) = {n, m}
      /\ n # Nobody /\ m # Nobody /\ c # Nobody /\ c \in ContainerIds /\ (Clear(q) \/ c \in blurred)
      /\ realmReq[q].id # Nobody
  BY <1>1, AtWork DEF RealmShaped, NamesOf, RealmRequest
<1>3. CASE ~found
  BY <1>2, <1>3, AbortSound DEF MoveContainer
<1>4. CASE found
  <2>1. realmReq' = [realmReq EXCEPT ![q] = OverRealmRequest]
        /\ UNCHANGED <<realmRow, adminRoles, granted, undrawn, blurred>>
    BY <1>4 DEF MoveContainer, Answered
  <2>2. /\ containerRow'[m] = c
        /\ \A k \in RealmNames \ {m} : containerRow'[k] = IF containerRow[k] = c THEN Nobody ELSE containerRow[k]
    BY <1>2, <1>4 DEF MoveContainer
  <2>3. /\ realmReq' \in [RealmRequests -> RealmRequest] /\ OthersStay(q) /\ realmReq'[q] = OverRealmRequest
        /\ \A o \in RealmRequests \ {q} : realmReq'[o] = realmReq[o] /\ NamesOf(o)' = NamesOf(o)
        /\ NamesOf(q)' = {OverRealmRequest.name, OverRealmRequest.to} \ {Nobody} /\ Blurs'
    <3>1. \A k \in RealmNames \cap blurred' : containerRow'[k] \in blurred' \cup {Nobody}
      <4> SUFFICES ASSUME NEW k \in RealmNames \cap blurred PROVE containerRow'[k] \in blurred \cup {Nobody}
        BY <2>1
      <4>1. CASE k = m
        BY <1>2, <2>2, <4>1 DEF Clear
      <4>2. CASE k # m
        BY <2>2, <4>2 DEF Blurs
      <4> QED
        BY <4>1, <4>2
    <3> QED
      BY <2>1, <3>1, NamesKept, OverFacts
  <2>4. NamesOf(q)' = {}
    BY <2>3, OverFacts
  <2>5. ContainersTypeOK'
    <3>1. containerRow' \in [RealmNames -> ContainerIds \cup {Nobody}]
      BY <1>2, <1>4 DEF MoveContainer, ContainersTypeOK
    <3> QED
      BY <2>1, <2>2, <2>3, <3>1 DEF ContainersTypeOK
  <2>6. HeldWhere'
    <3>1. ASSUME NEW o \in RealmRequests, NEW k \in RealmNames, Holds(o, k)'
          PROVE  k \in NamesOf(o)' \/ (k \in blurred' /\ NamesOf(o)' \subseteq blurred')
      <4>1. o # q
        BY <2>3, <3>1, OverFacts DEF Holds
      <4>2. realmReq'[o].id = realmReq[o].id /\ realmReq'[o].container = realmReq[o].container
            /\ NamesOf(o)' = NamesOf(o)
        BY <2>3, <4>1
      <4>3. CASE Holds(o, k)
        BY <2>1, <4>2, <4>3 DEF HeldWhere
      <4>4. CASE ~Holds(o, k)
        <5>1. k = m /\ realmReq[o].container = c
          BY <2>1, <2>2, <3>1, <4>2, <4>4 DEF Holds
        <5>2. PICK j \in RealmNames : containerRow[j] = c
          BY <1>4
        <5>3. Holds(q, j) /\ Holds(o, j)
          BY <1>2, <5>1, <5>2 DEF Holds
        <5>4. NamesOf(q) \subseteq blurred /\ NamesOf(o) \subseteq blurred
          BY <4>1, <5>3, MetTogether
        <5> QED
          BY <1>2, <2>1, <4>2, <5>1, <5>4
      <4> QED
        BY <4>3, <4>4
    <3> QED
      BY <3>1 DEF HeldWhere
  <2>7. IdsDrawn'
    <3>1. Nobody \notin undrawn
      BY RealmContainersAssumption DEF ContainersTypeOK
    <3>2. \A k \in RealmNames : realmRow'[k] \notin undrawn' /\ containerRow'[k] \notin undrawn'
      BY <2>1, <2>2, <3>1 DEF IdsDrawn
    <3> QED
      BY <2>1, <2>3, <3>1, <3>2, OverFacts DEF IdsDrawn
  <2>8. ASSUME NEW k \in RealmNames \ (blurred \cup NamesOf(q)) PROVE Same(k)
    <3>1. containerRow[k] # c /\ k # m
      BY <1>2, Foreign DEF Holds
    <3> QED
      BY <2>1, <2>2, <3>1 DEF Same
  <2>9. RolesHoused'
    <3> SUFFICES ASSUME NEW x \in adminRoles
                 PROVE  x[1] \in blurred \/ \E k \in RealmNames : containerRow'[k] = x[1]
      BY <2>1 DEF RolesHoused
    <3>1. x[1] # Nobody
      BY RealmContainersAssumption DEF ContainersTypeOK
    <3>2. CASE x[1] = c
      BY <1>2, <2>2, <3>2
    <3>3. CASE x[1] # c
      BY <1>4, <2>2, <3>1, <3>3 DEF RolesHoused
    <3> QED
      BY <3>2, <3>3
  <2>10. RealmShaped(q)' /\ RealmStanding(q)'
    BY <2>3, OverFacts DEF RealmShaped, RealmStanding
  <2>11. ASSUME NEW k \in NamesOf(q) \ blurred' PROVE Settled(k)'
    <3>1. Clear(q)
      BY <2>1 DEF Blurs, Clear
    <3>2. realmRow[n] = Nobody /\ realmRow[m] = realmReq[q].id /\ containerRow[n] = c /\ Granted(c)
      BY <1>1, <1>2, <3>1 DEF RealmStanding
    <3>3. CASE k = n
      <4>1. realmRow'[k] = Nobody /\ containerRow'[k] = Nobody
        BY <1>2, <2>1, <2>2, <3>2, <3>3
      <4> QED
        BY <4>1 DEF Settled
    <3>4. CASE k = m
      <4>1. realmRow'[k] # Nobody /\ containerRow'[k] # Nobody
        BY <1>2, <2>1, <2>2, <3>2, <3>4
      <4>2. \A j \in AdminRoles : <<containerRow'[k], j>> \in granted'
        BY <2>1, <2>2, <3>2, <3>4 DEF Granted
      <4> QED
        BY <4>1, <4>2 DEF Settled, Granted
    <3> QED
      BY <1>2, <3>3, <3>4
  <2> QED
    BY <2>1, <2>3, <2>4, <2>5, <2>6, <2>7, <2>8, <2>9, <2>10, <2>11 DEF Sound
<1> QED
  BY <1>3, <1>4

-----------------------------------------------------------------------------
LEMMA ContainersStart == ContainersInit => CInv
<1> SUFFICES ASSUME ContainersInit PROVE CInv
  OBVIOUS
<1> USE DEF ContainersInit
<1>1. IdleRealmRequest \in RealmRequest /\ IdleRealmRequest.step = "idle" /\ IdleRealmRequest.name = Nobody
      /\ IdleRealmRequest.to = Nobody /\ IdleRealmRequest.id = Nobody /\ IdleRealmRequest.container = Nobody
  BY DEF IdleRealmRequest, RealmRequest, RealmSteps
<1>2. \A q \in RealmRequests : realmReq[q] = IdleRealmRequest /\ NamesOf(q) = {}
  BY <1>1 DEF NamesOf
<1> HIDE DEF IdleRealmRequest
<1>3. ContainersTypeOK
  BY <1>1 DEF ContainersTypeOK
<1>4. Blurs
  BY <1>2 DEF Blurs, Clear
<1>5. HeldWhere /\ RolesHoused
  BY <1>1, <1>2 DEF HeldWhere, Holds, RolesHoused
<1>6. IdsDrawn
  BY <1>1, <1>2, RealmContainersAssumption DEF IdsDrawn
<1>7. \A q \in RealmRequests : RealmShaped(q) /\ RealmStanding(q)
  BY <1>1, <1>2 DEF RealmShaped, RealmStanding
<1>8. \A n \in RealmNames : Settled(n)
  BY DEF Settled
<1> QED
  BY <1>3, <1>4, <1>5, <1>6, <1>7, <1>8 DEF CInv

LEMMA ContainersStep == CInv /\ [ContainersNext]_containersVars => CInv'
<1> SUFFICES ASSUME CInv, [ContainersNext]_containersVars PROVE CInv'
  OBVIOUS
<1>1. CASE UNCHANGED containersVars
  BY <1>1 DEF containersVars, CInv, ContainersTypeOK, Blurs, HeldWhere, IdsDrawn, RolesHoused, RealmShaped,
              RealmStanding, Settled, Active, NamesOf, Clear, Holds, Granted, HasRoles, OnlyRoles
<1>2. ASSUME NEW q \in RealmRequests,
             \/ PostRealm(q) \/ EnsureRealm(q) \/ SeedRealm(q) \/ EnsureContainer(q) \/ LookUpContainer(q)
             \/ EnsureContainerRoles(q) \/ ComposeAdmin(q)
             \/ DeleteRealm(q) \/ FindContainer(q) \/ ListContainerRoles(q) \/ DropContainerRoles(q)
             \/ DropContainer(q) \/ DropRealm(q)
             \/ PutRealm(q) \/ WriteRealm(q)
             \/ RenameRealm(q) \/ RenameRow(q) \/ FindMovedContainer(q) \/ MoveContainer(q)
             \/ CutRealmRequest(q)
      PROVE  Sound(q)
  BY <1>2, PostRealmSound, EnsureRealmSound, SeedRealmSound, EnsureContainerSound, LookUpContainerSound,
     EnsureContainerRolesSound, ComposeAdminSound, DeleteRealmSound, FindContainerSound,
     ListContainerRolesSound, DropContainerRolesSound, DropContainerSound, DropRealmSound,
     PutRealmSound, WriteRealmSound, RenameRealmSound, RenameRowSound, FindMovedContainerSound, MoveContainerSound, CutSound
<1> QED
  BY <1>1, <1>2, SoundStep DEF ContainersNext

LEMMA GrantsFromCInv == CInv => ContainersTypeOK /\ GrantsFollowRealms
<1> SUFFICES ASSUME CInv PROVE ContainersTypeOK /\ GrantsFollowRealms
  OBVIOUS
<1>1. ASSUME NEW n \in RealmNames \ blurred, ~Active(n)
      PROVE  /\ realmRow[n] = Nobody <=> containerRow[n] = Nobody
             /\ containerRow[n] # Nobody => {containerRow[n]} \X AdminRoles \subseteq granted
  BY <1>1 DEF CInv, Settled, Granted
<1> QED
  BY <1>1 DEF CInv, GrantsFollowRealms, RolesHoused

\* The tables of realms and of their containers keep their types, and no two
\* names share a realm or a container, whatever requests do at once.
THEOREM ContainersTypeCorrect == ContainersSpec => []ContainersTypeOK
BY ContainersStart, ContainersStep, GrantsFromCInv, PTL DEF ContainersSpec

\* A realm that nobody is at work on has its container with every role granted to
\* master's admin, and nothing in master outlives its realm, unless requests on
\* its name overlapped or one was cut off.
THEOREM GrantsFollow == ContainersSpec => []GrantsFollowRealms
BY ContainersStart, ContainersStep, GrantsFromCInv, PTL DEF ContainersSpec
=============================================================================
