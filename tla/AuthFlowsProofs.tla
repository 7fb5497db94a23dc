-------------------------- MODULE AuthFlowsProofs ---------------------------
(***************************************************************************)
(* Theorems about the admin API of authentication flows, for any flows,    *)
(* executions, configurations and requests.                                *)
(***************************************************************************)
EXTENDS AuthFlows, FiniteSetTheorems, SequenceTheorems, TLAPS

AtRest == {"idle", "over"}
Copying == {"copy", "list", "rows"}
Editing == {"update", "siblings", "swap", "swapOther", "attach", "detach"}
Swapping == {"swap", "swapOther"}

\* The rows that a frame has still to copy.
Todo(frame) == frame.todo \cup ({frame.at} \ {Nil})

\* The columns of a request that its step needs.
FlowShaped(r) ==
  /\ r.step \in AtRest \cup Copying <=> r.flow = Nil
  /\ r.step \notin {"count", "place", "copy"} => r.sub = Nil
  /\ r.step = "copy" => r.sub # Nil
  /\ r.step = "place" => r.row # Nil /\ r.row.parent = r.flow /\ r.row.sub = r.sub /\ r.row.config = Nil
  /\ r.step \in Editing <=> r.exec # Nil
  /\ r.step \in Editing => r.row # Nil /\ r.row.parent = r.flow
  /\ r.step \in Swapping <=> r.peer # Nil
  /\ r.step \in Swapping => r.peerRow # Nil /\ r.peerRow.parent = r.flow /\ r.peer # r.exec

FrameFits(r, i) ==
  LET frame == r.frames[i] IN
  /\ frame.at = Nil <=> i = 1 /\ r.step # "copy"
  /\ IsFiniteSet(frame.todo) /\ frame.at \notin frame.todo
  /\ i = 1 /\ r.step = "list" => frame.todo = {}
  /\ \A j \in DOMAIN r.frames : j # i => r.frames[j].to # frame.to

FramesFit(r) ==
  /\ r.step \notin Copying => r.frames = <<>>
  /\ r.step \in {"list", "rows"} => r.frames # <<>>
  /\ \A i \in DOMAIN r.frames : FrameFits(r, i)

FlowFits(r) == r \in FlowRequest /\ FlowShaped(r) /\ FramesFit(r)

\* The copies a request is at work on, and the flows it has made that no row
\* stands for yet.
Copies(r) == {r.frames[i].to : i \in DOMAIN r.frames}
Pending(r) == (IF r.step = "copy" THEN {} ELSE {r.sub} \ {Nil}) \cup Copies(r)
Numbers(r) == ({r.flow} \cup Copies(r)) \ {Nil}

\* No id is in use that was not drawn.
FlowDrawn(r) ==
  /\ r.exec \in spent \cup {Nil} /\ r.peer \in spent \cup {Nil}
  /\ Numbers(r) \subseteq spent /\ Pending(r) \subseteq spent
TablesDrawn ==
  /\ Live \subseteq spent /\ flowRows \subseteq spent
  /\ \A e \in Live : execRow[e].sub \in spent \cup {Nil}

\* A row that was read lies in the same flow, and stands for the same sub-flow, as
\* long as it is there.
Agrees(e, row) == e \in Live => execRow[e].parent = row.parent /\ execRow[e].sub = row.sub
RowsAgree(r) == Agrees(r.exec, r.row) /\ Agrees(r.peer, r.peerRow)

\* The rows that a request has read and will write, and their configurations.
Held(r) ==
  (IF r.step \in Editing THEN {<<r.exec, r.row>>} ELSE {})
    \cup (IF r.step \in Swapping THEN {<<r.peer, r.peerRow>>} ELSE {})
    \cup UNION {Todo(r.frames[i]) : i \in DOMAIN r.frames}
HeldConfigs(r) ==
  r.late \/ \A p \in Held(r) : p[2].config \in configRows \cup {Nil} \/ p[1] \in stale

\* What a request knows of the numbering of a flow that only it is at work on.
Priorities(S) == {execRow[e].priority : e \in S}
DenseFlow(f) == Priorities(RowsOf(f)) = 0..(Cardinality(RowsOf(f)) - 1)
Current(f, e, row) == e \in RowsOf(f) /\ execRow[e].priority = row.priority
KnowsFlow(r) ==
  /\ r.step # "swapOther" => DenseFlow(r.flow)
  /\ r.step = "place" => r.row.priority = Cardinality(RowsOf(r.flow))
  /\ r.step \in {"update", "siblings", "attach", "swap"} => Current(r.flow, r.exec, r.row)
  /\ r.step \in Swapping => Current(r.flow, r.peer, r.peerRow)
  /\ r.step = "swapOther" =>
       /\ Current(r.flow, r.exec, r.peerRow)
       /\ Priorities(RowsOf(r.flow) \ {r.exec}) \cup {r.row.priority} = 0..(Cardinality(RowsOf(r.flow)) - 1)
TodoPriorities(frame) == {p[2].priority : p \in Todo(frame)}
KnowsFrame(frame) ==
  Priorities(RowsOf(frame.to)) \cup TodoPriorities(frame)
    = 0..(Cardinality(RowsOf(frame.to)) + Cardinality(Todo(frame)) - 1)
Knows(r) ==
  /\ r.flow \in flowRows \ mixed => KnowsFlow(r)
  /\ \A i \in DOMAIN r.frames :
       r.frames[i].to \in flowRows \ mixed =>
         /\ KnowsFrame(r.frames[i])
         /\ i = 1 /\ r.step = "list" => RowsOf(r.frames[i].to) = {}

Standing(r) == FlowFits(r) /\ FlowDrawn(r) /\ RowsAgree(r) /\ HeldConfigs(r) /\ Knows(r)

\* No two requests have made the same flow, or number one unnoticed.
Apart ==
  /\ \A q \in FlowRequests, e \in Live : execRow[e].sub \notin Pending(flowReq[q])
  /\ \A q, o \in FlowRequests : q # o => /\ Pending(flowReq[q]) \cap Pending(flowReq[o]) = {}
                                         /\ Numbers(flowReq[q]) \cap Numbers(flowReq[o]) \subseteq mixed

FlowsInv ==
  /\ FlowsTypeOK /\ TablesDrawn /\ Apart
  /\ NoDanglingConfig /\ SubFlowsNotShared /\ PrioritiesDense
  /\ \A q \in FlowRequests : Standing(flowReq[q])

-----------------------------------------------------------------------------
(* A step of one request *)

\* The others go on as they were, but for a deletion they have met.
OtherStays(o) == flowReq'[o] = flowReq[o] \/ flowReq'[o] = [flowReq[o] EXCEPT !.late = TRUE]

\* The numbering of a flow stays.
SameRows(f) ==
  RowsOf(f)' = RowsOf(f) /\ \A e \in RowsOf(f) : execRow'[e].priority = execRow[e].priority

\* What a step of request q, which leaves it at r, has to show.
TablesSound(q, r) ==
  /\ FlowsTypeOK' /\ TablesDrawn' /\ NoDanglingConfig'
  /\ flowReq'[q] = r /\ \A o \in FlowRequests \ {q} : OtherStays(o)
  /\ spent \subseteq spent' /\ mixed \subseteq mixed' /\ stale \subseteq stale'
  /\ \/ configRows \subseteq configRows'
     \/ \A o \in FlowRequests \ {q} : flowReq[o].step \notin AtRest => flowReq'[o].late
SubsSound(q, r) ==
  /\ \A e \in Live' : \/ e \in Live /\ execRow'[e].parent = execRow[e].parent /\ execRow'[e].sub = execRow[e].sub
                      \/ e \notin spent /\ execRow'[e].sub \in {Nil} \cup (Pending(flowReq[q]) \ Pending(r))
  /\ \A e, o \in Live' \ Live : e = o
  /\ Pending(r) \cap spent \subseteq Pending(flowReq[q])
NumbersSound(q, r) ==
  /\ \A f \in flowRows' \ mixed' :
       f \notin Numbers(flowReq[q]) => \/ f \in flowRows /\ SameRows(f)
                                       \/ f \notin spent /\ RowsOf(f)' = {}
  /\ \A f \in flowRows' \ mixed' : f \in Numbers(flowReq[q]) \ Numbers(r) => DenseFlow(f)'
  /\ \A f \in Numbers(r) \ Numbers(flowReq[q]) :
       f \notin spent \/ f \in mixed' \/ \A o \in FlowRequests \ {q} : f \notin Numbers(flowReq[o])
FlowSound(q, r) ==
  r \in FlowRequest /\ Standing(r)' /\ TablesSound(q, r) /\ SubsSound(q, r) /\ NumbersSound(q, r)

LEMMA RequestTypes ==
  ASSUME NEW r \in FlowRequest
  PROVE  /\ DOMAIN r.frames = 1..Len(r.frames) /\ Len(r.frames) \in Nat
         /\ \A i \in DOMAIN r.frames : r.frames[i] \in CopyFrame
         /\ Copies(r) \subseteq FlowIds /\ Pending(r) \subseteq FlowIds /\ Numbers(r) \subseteq FlowIds
         /\ Nil \notin Pending(r) /\ Nil \notin Numbers(r)
<1>1. r.frames \in Seq(CopyFrame) /\ r.flow \in FlowIds \cup {Nil} /\ r.sub \in FlowIds \cup {Nil}
  BY DEF FlowRequest
<1>2. /\ DOMAIN r.frames = 1..Len(r.frames) /\ Len(r.frames) \in Nat
      /\ \A i \in DOMAIN r.frames : r.frames[i] \in CopyFrame
  BY <1>1
<1>3. \A i \in DOMAIN r.frames : r.frames[i].to \in FlowIds
  BY <1>2 DEF CopyFrame
<1>4. Copies(r) \subseteq FlowIds
  BY <1>3 DEF Copies
<1> QED
  BY <1>1, <1>2, <1>4, AuthFlowsAssumption DEF Pending, Numbers

LEMMA ConcernsNumbers ==
  ASSUME NEW q \in FlowRequests
  PROVE  Concerns(q) = Numbers(flowReq[q])
BY DEF Concerns, Numbers, Copies

\* What a request holds does not depend on its mark.
LEMMA LateFacts ==
  ASSUME NEW r \in FlowRequest, FlowFits(r)
  PROVE  LET l == [r EXCEPT !.late = TRUE] IN
         /\ l \in FlowRequest /\ FlowFits(l) /\ l.late /\ l.step = r.step
         /\ Pending(l) = Pending(r) /\ Numbers(l) = Numbers(r) /\ Held(l) = Held(r)
         /\ FlowDrawn(l) = FlowDrawn(r) /\ RowsAgree(l) = RowsAgree(r) /\ Knows(l) = Knows(r)
<1> DEFINE l == [r EXCEPT !.late = TRUE]
<1>1. /\ l \in FlowRequest /\ l.late /\ l.step = r.step /\ l.flow = r.flow /\ l.exec = r.exec /\ l.row = r.row
      /\ l.peer = r.peer /\ l.peerRow = r.peerRow /\ l.sub = r.sub /\ l.frames = r.frames
  BY DEF FlowRequest
<1> HIDE DEF l
<1>2. FlowShaped(l) /\ FramesFit(l)
  BY <1>1 DEF FlowFits, FlowShaped, FramesFit, FrameFits
<1>3. Copies(l) = Copies(r)
  BY <1>1 DEF Copies
<1>4. Pending(l) = Pending(r) /\ Numbers(l) = Numbers(r) /\ Held(l) = Held(r)
  BY <1>1, <1>3 DEF Pending, Numbers, Held
<1>5. KnowsFlow(l) = KnowsFlow(r)
  BY <1>1 DEF KnowsFlow
<1>6. FlowDrawn(l) = FlowDrawn(r) /\ RowsAgree(l) = RowsAgree(r) /\ Knows(l) = Knows(r)
  BY <1>1, <1>4, <1>5 DEF FlowDrawn, RowsAgree, Knows
<1> QED
  BY <1>1, <1>2, <1>4, <1>6 DEF FlowFits, l

LEMMA SameDense ==
  ASSUME NEW f, SameRows(f)
  PROVE  /\ DenseFlow(f) => DenseFlow(f)'
         /\ Priorities(RowsOf(f))' = Priorities(RowsOf(f))
         /\ \A e, row : Current(f, e, row) => Current(f, e, row)'
         /\ \A e : Priorities(RowsOf(f) \ {e}) = Priorities(RowsOf(f) \ {e})'
BY DEF SameRows, DenseFlow, Priorities, Current

LEMMA OtherKnows ==
  ASSUME NEW r \in FlowRequest, Knows(r), FlowShaped(r), Nil \notin flowRows',
         \A f \in Numbers(r) : f \in flowRows' \ mixed' => f \in flowRows \ mixed /\ SameRows(f)
  PROVE  Knows(r)'
<1>1. ASSUME r.flow \in flowRows' \ mixed', r.flow # Nil PROVE KnowsFlow(r)'
  <2>1. r.flow \in Numbers(r)
    BY <1>1 DEF Numbers
  <2>2. KnowsFlow(r) /\ SameRows(r.flow)
    BY <1>1, <2>1 DEF Knows
  <2>3. RowsOf(r.flow)' = RowsOf(r.flow)
    BY <2>2 DEF SameRows
  <2> QED
    BY <2>2, <2>3, SameDense DEF KnowsFlow
<1>2. ASSUME NEW i \in DOMAIN r.frames, r.frames[i].to \in flowRows' \ mixed', r.frames[i].to # Nil
      PROVE  /\ KnowsFrame(r.frames[i])'
             /\ i = 1 /\ r.step = "list" => RowsOf(r.frames[i].to)' = {}
  <2>1. r.frames[i].to \in Numbers(r)
    BY <1>2 DEF Numbers, Copies
  <2>2. KnowsFrame(r.frames[i]) /\ SameRows(r.frames[i].to)
        /\ (i = 1 /\ r.step = "list" => RowsOf(r.frames[i].to) = {})
    BY <1>2, <2>1 DEF Knows
  <2>3. RowsOf(r.frames[i].to)' = RowsOf(r.frames[i].to)
    BY <2>2 DEF SameRows
  <2>4. Priorities(RowsOf(r.frames[i].to))' = Priorities(RowsOf(r.frames[i].to))
    BY <2>2, SameDense
  <2>5. KnowsFrame(r.frames[i])'
    BY <2>2, <2>3, <2>4 DEF KnowsFrame
  <2> QED
    BY <2>2, <2>3, <2>5
<1> QED
  BY <1>1, <1>2 DEF Knows

LEMMA OtherStands ==
  ASSUME FlowsInv, NEW q \in FlowRequests, NEW r, FlowSound(q, r), NEW o \in FlowRequests \ {q}
  PROVE  /\ Standing(flowReq[o])'
         /\ Pending(flowReq'[o]) = Pending(flowReq[o]) /\ Numbers(flowReq'[o]) = Numbers(flowReq[o])
<1> USE DEF FlowsInv
<1>1. PICK s \in FlowRequest : s = flowReq[o]
  BY DEF FlowsTypeOK
<1>2. PICK t \in FlowRequest : t = flowReq'[o]
  BY DEF FlowSound, TablesSound, FlowsTypeOK
<1>3. t = s \/ t = [s EXCEPT !.late = TRUE]
  BY <1>1, <1>2 DEF FlowSound, TablesSound, OtherStays
<1>4. Standing(s)
  BY <1>1
<1>5. /\ FlowFits(t) /\ t.step = s.step /\ Pending(t) = Pending(s) /\ Numbers(t) = Numbers(s) /\ Held(t) = Held(s)
      /\ FlowDrawn(t) /\ RowsAgree(t) /\ Knows(t) /\ (s.late => t.late)
  BY <1>3, <1>4, LateFacts DEF Standing
<1>6. FlowDrawn(t)'
  BY <1>5 DEF FlowDrawn, FlowSound, TablesSound
<1>7. RowsAgree(t)'
  <2>1. \A e \in Live' \cap spent : e \in Live /\ execRow'[e].parent = execRow[e].parent /\ execRow'[e].sub = execRow[e].sub
    BY DEF FlowSound, SubsSound
  <2>2. Nil \notin Live'
    BY AuthFlowsAssumption DEF Live
  <2> QED
    BY <1>5, <2>1, <2>2 DEF RowsAgree, Agrees, FlowDrawn
<1>8. HeldConfigs(t)'
  <2>1. CASE configRows \subseteq configRows'
    BY <1>4, <1>5, <2>1 DEF Standing, HeldConfigs, FlowSound, TablesSound
  <2>2. CASE t.late
    BY <2>2 DEF HeldConfigs
  <2>3. CASE s.step \in AtRest
    <3>1. Held(t) = {}
      BY <1>5, <2>3 DEF Held, FlowFits, FramesFit, AtRest, Editing, Swapping, Copying
    <3> QED
      BY <3>1 DEF HeldConfigs
  <2> QED
    BY <1>1, <1>2, <2>1, <2>2, <2>3 DEF FlowSound, TablesSound
<1>9. Knows(t)'
  <2>1. \A f \in Numbers(t) : f \in flowRows' \ mixed' => f \in flowRows \ mixed /\ SameRows(f)
    <3> SUFFICES ASSUME NEW f \in Numbers(t), f \in flowRows' \ mixed'
                 PROVE  f \in flowRows \ mixed /\ SameRows(f)
      OBVIOUS
    <3>1. f \notin mixed
      BY DEF FlowSound, TablesSound
    <3>2. f \notin Numbers(flowReq[q]) /\ f \in spent
      BY <1>1, <1>4, <1>5, <3>1 DEF Apart, FlowDrawn, Standing
    <3> QED
      BY <3>1, <3>2 DEF FlowSound, NumbersSound
  <2>2. Nil \notin flowRows'
    BY AuthFlowsAssumption DEF FlowSound, TablesSound, FlowsTypeOK
  <2> QED
    BY <1>5, <2>1, <2>2, OtherKnows DEF FlowFits
<1>10. Standing(t)'
  BY <1>5, <1>6, <1>7, <1>8, <1>9 DEF Standing
<1> QED
  BY <1>1, <1>2, <1>5, <1>10

LEMMA FlowSoundStep ==
  ASSUME FlowsInv, NEW q \in FlowRequests, NEW r, FlowSound(q, r)
  PROVE  FlowsInv'
<1> USE DEF FlowsInv
<1>1. FlowsTypeOK' /\ TablesDrawn' /\ NoDanglingConfig' /\ flowReq'[q] = r /\ Standing(r)'
  BY DEF FlowSound, TablesSound
<1>2. \A o \in FlowRequests : Standing(flowReq[o])'
  BY <1>1, OtherStands
<1>3. /\ spent \subseteq spent' /\ mixed \subseteq mixed'
      /\ \A o \in FlowRequests \ {q} : /\ Pending(flowReq'[o]) = Pending(flowReq[o])
                                       /\ Numbers(flowReq'[o]) = Numbers(flowReq[o])
  BY OtherStands DEF FlowSound, TablesSound
<1>4. \A o \in FlowRequests : Pending(flowReq[o]) \subseteq spent /\ Numbers(flowReq[o]) \subseteq spent
  BY DEF Standing, FlowDrawn
<1>5. \A e \in Live' : execRow'[e].sub = Nil \/ (e \in Live /\ execRow'[e].sub = execRow[e].sub)
                       \/ (e \notin Live /\ execRow'[e].sub \in Pending(flowReq[q]) \ Pending(r))
  BY DEF FlowSound, SubsSound, TablesDrawn
<1>6. \A o \in FlowRequests : Nil \notin Pending(flowReq[o]) /\ Nil \notin Pending(flowReq'[o])
  <2>1. \A s \in FlowRequest : Nil \notin Pending(s)
    BY RequestTypes
  <2>2. \A o \in FlowRequests : flowReq[o] \in FlowRequest /\ flowReq'[o] \in FlowRequest
    BY <1>1 DEF FlowsTypeOK
  <2> QED
    BY <2>1, <2>2
<1>7. Apart'
  <2>1. ASSUME NEW o \in FlowRequests, NEW e \in Live' PROVE execRow'[e].sub \notin Pending(flowReq'[o])
    <3>1. CASE o = q
      <4>1. Pending(r) \cap spent \subseteq Pending(flowReq[q])
        BY DEF FlowSound, SubsSound
      <4>2. \A x \in Live : execRow[x].sub \in spent \cup {Nil} /\ execRow[x].sub \notin Pending(flowReq[q])
        BY DEF TablesDrawn, Apart
      <4> QED
        BY <1>1, <1>5, <1>6, <3>1, <4>1, <4>2
    <3>2. CASE o # q
      <4>1. \A x \in Live : execRow[x].sub \notin Pending(flowReq[o])
        BY DEF Apart
      <4>2. Pending(flowReq[q]) \cap Pending(flowReq[o]) = {}
        BY <3>2 DEF Apart
      <4> QED
        BY <1>3, <1>5, <1>6, <3>2, <4>1, <4>2
    <3> QED
      BY <3>1, <3>2
  <2>2. ASSUME NEW o \in FlowRequests \ {q}
        PROVE  Pending(r) \cap Pending(flowReq'[o]) = {} /\ Numbers(r) \cap Numbers(flowReq'[o]) \subseteq mixed'
    <3>1. Pending(r) \cap spent \subseteq Pending(flowReq[q])
      BY DEF FlowSound, SubsSound
    <3>2. Pending(flowReq[q]) \cap Pending(flowReq[o]) = {} /\ Numbers(flowReq[q]) \cap Numbers(flowReq[o]) \subseteq mixed
      BY DEF Apart
    <3>3. \A f \in Numbers(r) \ Numbers(flowReq[q]) : f \notin spent \/ f \in mixed' \/ f \notin Numbers(flowReq[o])
      BY DEF FlowSound, NumbersSound
    <3> QED
      BY <1>3, <1>4, <3>1, <3>2, <3>3
  <2>3. ASSUME NEW o \in FlowRequests, NEW p \in FlowRequests, o # p
        PROVE  /\ Pending(flowReq'[p]) \cap Pending(flowReq'[o]) = {}
               /\ Numbers(flowReq'[p]) \cap Numbers(flowReq'[o]) \subseteq mixed'
    <3>1. CASE o # q /\ p # q
      BY <1>3, <2>3, <3>1 DEF Apart
    <3> QED
      BY <1>1, <2>2, <2>3, <3>1
  <2> QED
    BY <2>1, <2>3 DEF Apart
<1>8. SubFlowsNotShared'
  <2> SUFFICES ASSUME NEW e \in Live', NEW o \in Live', e # o, execRow'[e].sub = execRow'[o].sub, execRow'[e].sub # Nil
               PROVE  FALSE
    BY DEF SubFlowsNotShared
  <2>1. e \in Live \/ o \in Live
    BY DEF FlowSound, SubsSound
  <2>2. CASE e \in Live /\ o \in Live
    BY <1>5, <2>2 DEF SubFlowsNotShared
  <2>3. CASE e \in Live /\ o \notin Live
    BY <1>5, <2>3 DEF Apart
  <2>4. CASE e \notin Live /\ o \in Live
    BY <1>5, <2>4 DEF Apart
  <2> QED
    BY <2>1, <2>2, <2>3, <2>4
<1>9. PrioritiesDense'
  <2> SUFFICES ASSUME NEW f \in flowRows' \ mixed', Quiet(f)' PROVE DenseFlow(f)'
    BY DEF PrioritiesDense, DenseFlow, Priorities
  <2>1. \A o \in FlowRequests : f \notin Numbers(flowReq'[o])
    BY DEF Quiet, Concerns, Numbers, Copies
  <2>2. CASE f \in Numbers(flowReq[q])
    BY <1>1, <2>1, <2>2 DEF FlowSound, NumbersSound
  <2>3. CASE f \notin Numbers(flowReq[q])
    <3>1. CASE f \in flowRows /\ SameRows(f)
      <4>1. f \notin mixed
        BY <1>3
      <4>2. \A o \in FlowRequests : f \notin Numbers(flowReq[o])
        BY <1>3, <2>1, <2>3
      <4>3. Quiet(f)
        BY <4>2, ConcernsNumbers DEF Quiet
      <4>4. DenseFlow(f)
        BY <3>1, <4>1, <4>3 DEF PrioritiesDense, DenseFlow, Priorities
      <4> QED
        BY <3>1, <4>4, SameDense
    <3>2. CASE RowsOf(f)' = {}
      <4>1. Cardinality({}) = 0
        BY FS_EmptySet
      <4>2. DenseFlow(f)' <=> {execRow'[e].priority : e \in RowsOf(f)'} = 0..(Cardinality(RowsOf(f)') - 1)
        BY DEF DenseFlow, Priorities
      <4> QED
        BY <3>2, <4>1, <4>2
    <3> QED
      BY <2>3, <3>1, <3>2 DEF FlowSound, NumbersSound
  <2> QED
    BY <2>2, <2>3
<1> QED
  BY <1>1, <1>2, <1>7, <1>8, <1>9

-----------------------------------------------------------------------------
(* Steps that leave the flows and their rows alone *)

LEMMA ReadSound ==
  ASSUME FlowsInv, NEW q \in FlowRequests, NEW r \in FlowRequest, flowReq' = [flowReq EXCEPT ![q] = r],
         UNCHANGED <<flowRows, builtIn, execRow, stale>>,
         configRows \subseteq configRows', configRows' \subseteq ConfigIds,
         spent \subseteq spent', spent' \subseteq FlowIds \cup ExecIds \cup ConfigIds,
         mixed \subseteq mixed', mixed' \subseteq FlowIds,
         FlowFits(r), FlowDrawn(r), RowsAgree(r), HeldConfigs(r)',
         r.flow \in flowRows \ mixed' => KnowsFlow(r),
         \A i \in DOMAIN r.frames :
           r.frames[i].to \in flowRows \ mixed' =>
             /\ KnowsFrame(r.frames[i])
             /\ i = 1 /\ r.step = "list" => RowsOf(r.frames[i].to) = {},
         Pending(r) \subseteq Pending(flowReq[q]),
         \A f \in flowRows \ mixed' : f \in Numbers(flowReq[q]) \ Numbers(r) => DenseFlow(f),
         \A f \in Numbers(r) \ Numbers(flowReq[q]) :
           f \in mixed' \/ \A o \in FlowRequests \ {q} : f \notin Numbers(flowReq[o])
  PROVE  FlowSound(q, r)
<1> USE DEF FlowsInv
<1>1. flowReq' \in [FlowRequests -> FlowRequest] /\ flowReq'[q] = r
      /\ \A o \in FlowRequests \ {q} : flowReq'[o] = flowReq[o]
  BY DEF FlowsTypeOK
<1>2. Live' = Live
  BY DEF Live
<1>3. \A f : RowsOf(f)' = RowsOf(f)
  BY <1>2 DEF RowsOf
<1>4. \A f : SameRows(f)
  BY <1>3 DEF SameRows
<1>5. FlowsTypeOK' /\ TablesDrawn' /\ NoDanglingConfig'
  BY <1>1, <1>2 DEF FlowsTypeOK, TablesDrawn, NoDanglingConfig
<1>6. FlowDrawn(r)' /\ RowsAgree(r)'
  BY <1>2 DEF FlowDrawn, RowsAgree, Agrees
<1>7. Knows(r)'
  <2>1. KnowsFlow(r) => KnowsFlow(r)'
    BY <1>3 DEF KnowsFlow, DenseFlow, Priorities, Current
  <2>2. \A i \in DOMAIN r.frames : KnowsFrame(r.frames[i]) => KnowsFrame(r.frames[i])'
    BY <1>3 DEF KnowsFrame, Priorities
  <2> QED
    BY <1>3, <2>1, <2>2 DEF Knows
<1>8. TablesSound(q, r)
  BY <1>1, <1>5 DEF TablesSound, OtherStays
<1>9. SubsSound(q, r)
  BY <1>2 DEF SubsSound
<1>10. NumbersSound(q, r)
  <2>1. \A f : DenseFlow(f) => DenseFlow(f)'
    BY <1>4, SameDense
  <2> QED
    BY <1>4, <2>1 DEF NumbersSound
<1> QED
  BY <1>6, <1>7, <1>8, <1>9, <1>10 DEF FlowSound, Standing

LEMMA IdleFlowFacts ==
  /\ IdleFlowRequest \in FlowRequest
  /\ IdleFlowRequest.flow = Nil /\ IdleFlowRequest.exec = Nil /\ IdleFlowRequest.peer = Nil
  /\ IdleFlowRequest.sub = Nil /\ IdleFlowRequest.frames = <<>> /\ IdleFlowRequest.step = "idle"
<1>1. <<>> \in Seq(CopyFrame) /\ {} \in SUBSET FlowIds /\ "idle" \in FlowSteps /\ FALSE \in BOOLEAN
  BY DEF FlowSteps
<1> QED
  BY <1>1 DEF IdleFlowRequest, FlowRequest

LEMMA OverFlowFacts ==
  /\ OverFlowRequest \in FlowRequest /\ FlowFits(OverFlowRequest)
  /\ Pending(OverFlowRequest) = {} /\ Numbers(OverFlowRequest) = {} /\ Held(OverFlowRequest) = {}
  /\ OverFlowRequest.exec = Nil /\ OverFlowRequest.peer = Nil /\ OverFlowRequest.frames = <<>>
  /\ OverFlowRequest.flow = Nil /\ OverFlowRequest.step = "over"
<1> DEFINE r == OverFlowRequest
<1>1. /\ r \in FlowRequest /\ r.step = "over" /\ r.flow = Nil /\ r.exec = Nil /\ r.peer = Nil /\ r.sub = Nil
      /\ r.frames = <<>>
  <2>1. "over" \in FlowSteps
    BY DEF FlowSteps
  <2> QED
    BY <2>1, IdleFlowFacts DEF OverFlowRequest, FlowRequest
<1> HIDE DEF r
<1>2. DOMAIN r.frames = {}
  BY <1>1
<1>3. Copies(r) = {}
  BY <1>2 DEF Copies
<1>4. Pending(r) = {} /\ Numbers(r) = {}
  BY <1>1, <1>3 DEF Pending, Numbers
<1>5. Held(r) = {}
  BY <1>1, <1>2 DEF Held, Editing, Swapping
<1>6. FlowFits(r)
  BY <1>1, <1>2 DEF FlowFits, FlowShaped, FramesFit, AtRest, Copying, Editing, Swapping
<1> QED
  BY <1>1, <1>4, <1>5, <1>6 DEF r

\* A request that leaves, with the flows it numbered in order or marked.
LEMMA LeaveSound ==
  ASSUME FlowsInv, NEW q \in FlowRequests, flowReq' = [flowReq EXCEPT ![q] = OverFlowRequest],
         UNCHANGED <<flowRows, builtIn, execRow, stale>>,
         configRows \subseteq configRows', configRows' \subseteq ConfigIds,
         spent \subseteq spent', spent' \subseteq FlowIds \cup ExecIds \cup ConfigIds,
         mixed \subseteq mixed', mixed' \subseteq FlowIds,
         \A f \in flowRows \ mixed' : f \in Numbers(flowReq[q]) => DenseFlow(f)
  PROVE  FlowSound(q, OverFlowRequest)
<1>1. PICK r : r = OverFlowRequest
  OBVIOUS
<1>2. /\ r \in FlowRequest /\ FlowFits(r) /\ Pending(r) = {} /\ Numbers(r) = {} /\ Held(r) = {}
      /\ r.exec = Nil /\ r.peer = Nil /\ r.frames = <<>> /\ r.flow = Nil /\ r.step = "over"
  BY <1>1, OverFlowFacts
<1>3. Nil \notin Live /\ Nil \notin flowRows
  BY AuthFlowsAssumption DEF Live, FlowsInv, FlowsTypeOK
<1>4. FlowDrawn(r) /\ RowsAgree(r) /\ HeldConfigs(r)'
  BY <1>2, <1>3 DEF FlowDrawn, RowsAgree, Agrees, HeldConfigs
<1>5. DOMAIN r.frames = {}
  BY <1>2
<1> QED
  BY <1>1, <1>2, <1>3, <1>4, <1>5, ReadSound

\* A request on flow f arrives with what it has read.
LEMMA ArrivalFlowSound ==
  ASSUME FlowsInv, NEW q \in FlowRequests, NEW f \in flowRows, NEW r \in FlowRequest,
         FlowRequestArrives(q, f, r), UNCHANGED <<flowRows, builtIn, execRow, stale>>,
         configRows \subseteq configRows', configRows' \subseteq ConfigIds,
         spent \subseteq spent', spent' \subseteq FlowIds \cup ExecIds \cup ConfigIds,
         r.flow = f, r.frames = <<>>, r.sub = Nil, r.peer = Nil,
         r.step \in {"count", "subflow", "update", "siblings", "attach"},
         r.step \in {"count", "subflow"} => r.exec = Nil,
         r.step \notin {"count", "subflow"} =>
           /\ r.exec \in RowsOf(f) /\ r.row # Nil /\ r.row.parent = f
           /\ r.row.sub = execRow[r.exec].sub /\ r.row.priority = execRow[r.exec].priority
           /\ r.row.config \in configRows' \cup {Nil} \/ r.exec \in stale
  PROVE  FlowSound(q, r)
<1> USE DEF FlowsInv
<1>1. /\ flowReq' = [flowReq EXCEPT ![q] = r] /\ flowReq[q].step = "idle"
      /\ mixed' = IF Quiet(f) THEN mixed ELSE mixed \cup {f}
  BY DEF FlowRequestArrives
<1>2. f \in FlowIds /\ f # Nil /\ Nil \notin Live /\ Nil \notin ExecIds
  BY AuthFlowsAssumption DEF FlowsTypeOK, Live
<1>3. DOMAIN r.frames = {} /\ Copies(r) = {}
  BY DEF Copies
<1>4. Pending(r) = {} /\ Numbers(r) = {f}
  BY <1>2, <1>3 DEF Pending, Numbers
<1>5. r.exec \in RowsOf(f) => r.exec \in Live /\ r.exec # Nil /\ execRow[r.exec].parent = f
  BY <1>2 DEF RowsOf
<1>6. FlowFits(r)
  BY <1>2, <1>3, <1>5 DEF FlowFits, FlowShaped, FramesFit, AtRest, Copying, Editing, Swapping
<1>7. FlowDrawn(r)
  BY <1>4, <1>5 DEF FlowDrawn, TablesDrawn
<1>8. RowsAgree(r)
  BY <1>2, <1>5 DEF RowsAgree, Agrees
<1>9. HeldConfigs(r)'
  <2>1. \A p \in Held(r) : p = <<r.exec, r.row>> /\ r.step \notin {"count", "subflow"}
    BY <1>3 DEF Held, Editing, Swapping
  <2> QED
    BY <2>1 DEF HeldConfigs
<1>10. r.flow \in flowRows \ mixed' => KnowsFlow(r)
  <2> SUFFICES ASSUME f \in flowRows \ mixed' PROVE KnowsFlow(r)
    OBVIOUS
  <2>1. DenseFlow(f)
    BY <1>1 DEF PrioritiesDense, DenseFlow, Priorities
  <2> QED
    BY <2>1 DEF KnowsFlow, Current, Swapping
<1>11. f \in mixed' \/ \A o \in FlowRequests : f \notin Numbers(flowReq[o])
  BY <1>1, ConcernsNumbers DEF Quiet
<1>12. Numbers(flowReq[q]) = {}
  <2>1. Standing(flowReq[q])
    OBVIOUS
  <2>2. flowReq[q].flow = Nil /\ flowReq[q].frames = <<>>
    BY <1>1, <2>1 DEF Standing, FlowFits, FlowShaped, FramesFit, AtRest, Copying
  <2> QED
    BY <2>2 DEF Numbers, Copies
<1>13. mixed \subseteq mixed' /\ mixed' \subseteq FlowIds
  BY <1>1, <1>2 DEF FlowsTypeOK
<1> QED
  BY <1>1, <1>3, <1>4, <1>6, <1>7, <1>8, <1>9, <1>10, <1>11, <1>12, <1>13, ReadSound

LEMMA LiveFacts ==
  ASSUME FlowsInv, NEW e \in Live
  PROVE  /\ e \in ExecIds /\ e # Nil /\ execRow[e] # Nil /\ execRow[e] \in ExecRow /\ e \in spent
         /\ execRow[e].parent \in flowRows /\ execRow[e].parent \in FlowIds /\ e \in RowsOf(execRow[e].parent)
         /\ execRow[e].config \in configRows \cup {Nil} \/ e \in stale
BY AuthFlowsAssumption DEF FlowsInv, FlowsTypeOK, TablesDrawn, Live, RowsOf, NoDanglingConfig

LEMMA NumberedFlows ==
  ASSUME FlowsInv, NEW f
  PROVE  IsFiniteSet(RowsOf(f)) /\ Cardinality(RowsOf(f)) \in 0..Cardinality(ExecIds)
<1>1. RowsOf(f) \subseteq ExecIds
  BY DEF RowsOf, Live
<1>2. IsFiniteSet(ExecIds) /\ Cardinality(ExecIds) \in Nat
  BY AuthFlowsAssumption, FS_CardinalityType
<1>3. IsFiniteSet(RowsOf(f)) /\ Cardinality(RowsOf(f)) <= Cardinality(ExecIds)
  BY <1>1, <1>2, FS_Subset
<1> QED
  BY <1>2, <1>3, FS_CardinalityType

LEMMA TablesTyped ==
  ASSUME FlowsInv
  PROVE  /\ flowRows \subseteq FlowIds /\ configRows \subseteq ConfigIds /\ mixed \subseteq FlowIds
         /\ spent \subseteq FlowIds \cup ExecIds \cup ConfigIds /\ stale \subseteq ExecIds
         /\ Nil \notin flowRows /\ Nil \notin Live /\ Nil \notin ExecIds /\ Nil \notin FlowIds /\ Nil \notin ConfigIds
BY AuthFlowsAssumption DEF FlowsInv, FlowsTypeOK, Live

LEMMA PostExecutionSound ==
  ASSUME FlowsInv, NEW q \in FlowRequests, PostExecution(q) \/ PostSubFlow(q)
  PROVE  \E r : FlowSound(q, r)
<1>1. PICK f \in flowRows, step \in {"count", "subflow"} :
        FlowRequestArrives(q, f, [IdleFlowRequest EXCEPT !.step = step, !.flow = f])
  BY DEF PostExecution, PostSubFlow
<1>2. PICK r : r = [IdleFlowRequest EXCEPT !.step = step, !.flow = f]
  OBVIOUS
<1>3. /\ r \in FlowRequest /\ r.step = step /\ r.flow = f /\ r.frames = <<>> /\ r.sub = Nil /\ r.peer = Nil
      /\ r.exec = Nil
  <2>1. step \in FlowSteps /\ f \in FlowIds
    BY TablesTyped DEF FlowSteps
  <2> QED
    BY <1>2, <2>1, IdleFlowFacts DEF FlowRequest
<1>4. UNCHANGED <<flowRows, builtIn, execRow, stale, configRows, spent>>
  BY DEF PostExecution, PostSubFlow
<1>5. FlowRequestArrives(q, f, r)
  BY <1>1, <1>2
<1>6. FlowSound(q, r)
  BY <1>3, <1>4, <1>5, TablesTyped, ArrivalFlowSound
<1> QED
  BY <1>6

LEMMA PutExecutionSound ==
  ASSUME FlowsInv, NEW q \in FlowRequests, PutExecution(q)
  PROVE  \E r : FlowSound(q, r)
<1>1. PICK e \in Live :
       FlowRequestArrives(q, execRow[e].parent,
         [IdleFlowRequest EXCEPT !.step = "update", !.flow = execRow[e].parent, !.exec = e,
                                 !.row = execRow[e]])
  BY DEF PutExecution
<1>2. PICK r : r = [IdleFlowRequest EXCEPT !.step = "update", !.flow = execRow[e].parent, !.exec = e,
                                           !.row = execRow[e]]
  OBVIOUS
<1>3. /\ r \in FlowRequest /\ r.step = "update" /\ r.flow = execRow[e].parent /\ r.frames = <<>> /\ r.sub = Nil
      /\ r.peer = Nil /\ r.exec = e /\ r.row = execRow[e]
  <2>1. "update" \in FlowSteps
    BY DEF FlowSteps
  <2> QED
    BY <1>2, <2>1, IdleFlowFacts, LiveFacts DEF FlowRequest
<1>4. UNCHANGED <<flowRows, builtIn, execRow, stale, configRows, spent>>
  BY DEF PutExecution
<1>5. FlowRequestArrives(q, execRow[e].parent, r)
  BY <1>1, <1>2
<1>6. FlowSound(q, r)
  BY <1>3, <1>4, <1>5, TablesTyped, LiveFacts, ArrivalFlowSound
<1> QED
  BY <1>6

LEMMA MovePrioritySound ==
  ASSUME FlowsInv, NEW q \in FlowRequests, MovePriority(q)
  PROVE  \E r : FlowSound(q, r)
<1>1. PICK e \in Live, up \in BOOLEAN :
       FlowRequestArrives(q, execRow[e].parent,
         [IdleFlowRequest EXCEPT !.step = "siblings", !.flow = execRow[e].parent, !.exec = e,
                                 !.row = execRow[e], !.up = up])
  BY DEF MovePriority
<1>2. PICK r : r = [IdleFlowRequest EXCEPT !.step = "siblings", !.flow = execRow[e].parent, !.exec = e,
                                           !.row = execRow[e], !.up = up]
  OBVIOUS
<1>3. /\ r \in FlowRequest /\ r.step = "siblings" /\ r.flow = execRow[e].parent /\ r.frames = <<>> /\ r.sub = Nil
      /\ r.peer = Nil /\ r.exec = e /\ r.row = execRow[e]
  <2>1. "siblings" \in FlowSteps
    BY DEF FlowSteps
  <2> QED
    BY <1>2, <2>1, IdleFlowFacts, LiveFacts DEF FlowRequest
<1>4. UNCHANGED <<flowRows, builtIn, execRow, stale, configRows, spent>>
  BY DEF MovePriority
<1>5. FlowRequestArrives(q, execRow[e].parent, r)
  BY <1>1, <1>2
<1>6. FlowSound(q, r)
  BY <1>3, <1>4, <1>5, TablesTyped, LiveFacts, ArrivalFlowSound
<1> QED
  BY <1>6

LEMMA PostExecutionConfigSound ==
  ASSUME FlowsInv, NEW q \in FlowRequests, PostExecutionConfig(q)
  PROVE  \E r : FlowSound(q, r)
<1>1. PICK e \in Live, c \in ConfigIds \ spent :
       /\ configRows' = configRows \cup {c}
       /\ spent' = spent \cup {c}
       /\ FlowRequestArrives(q, execRow[e].parent,
            [IdleFlowRequest EXCEPT !.step = "attach", !.flow = execRow[e].parent, !.exec = e,
                                    !.row = [execRow[e] EXCEPT !.config = c],
                                    !.previous = execRow[e].config])
  BY DEF PostExecutionConfig
<1>2. PICK row : row = [execRow[e] EXCEPT !.config = c]
  OBVIOUS
<1>3. /\ row \in ExecRow /\ row.parent = execRow[e].parent /\ row.sub = execRow[e].sub
      /\ row.priority = execRow[e].priority /\ row.config = c
  BY <1>2, LiveFacts DEF ExecRow
<1>4. PICK r : r = [IdleFlowRequest EXCEPT !.step = "attach", !.flow = execRow[e].parent, !.exec = e,
                                           !.row = row, !.previous = execRow[e].config]
  OBVIOUS
<1>5. /\ r \in FlowRequest /\ r.step = "attach" /\ r.flow = execRow[e].parent /\ r.frames = <<>> /\ r.sub = Nil
      /\ r.peer = Nil /\ r.exec = e /\ r.row = row
  <2>1. "attach" \in FlowSteps /\ execRow[e].config \in ConfigIds \cup {Nil}
    BY LiveFacts DEF FlowSteps, ExecRow
  <2> QED
    BY <1>3, <1>4, <2>1, IdleFlowFacts, LiveFacts DEF FlowRequest
<1>6. UNCHANGED <<flowRows, builtIn, execRow, stale>>
  BY DEF PostExecutionConfig
<1>7. FlowRequestArrives(q, execRow[e].parent, r)
  BY <1>1, <1>2, <1>4
<1>8. row # Nil
  BY <1>3, AuthFlowsAssumption
<1>9. FlowSound(q, r)
  BY <1>1, <1>3, <1>5, <1>6, <1>7, <1>8, TablesTyped, LiveFacts, ArrivalFlowSound
<1> QED
  BY <1>9

LEMMA RequestStands ==
  ASSUME FlowsInv, NEW q \in FlowRequests
  PROVE  /\ flowReq[q] \in FlowRequest /\ Standing(flowReq[q]) /\ FlowFits(flowReq[q])
         /\ FlowShaped(flowReq[q]) /\ FramesFit(flowReq[q]) /\ FlowDrawn(flowReq[q]) /\ RowsAgree(flowReq[q])
         /\ HeldConfigs(flowReq[q]) /\ Knows(flowReq[q])
BY DEF FlowsInv, FlowsTypeOK, Standing, FlowFits

LEMMA RestFacts ==
  ASSUME NEW r \in FlowRequest, FlowFits(r), r.step \in AtRest
  PROVE  Numbers(r) = {} /\ Pending(r) = {} /\ Held(r) = {}
<1>1. r.flow = Nil /\ r.frames = <<>> /\ r.sub = Nil
  BY DEF FlowFits, FlowShaped, FramesFit, AtRest, Copying
<1>2. Copies(r) = {} /\ DOMAIN r.frames = {}
  BY <1>1 DEF Copies
<1> QED
  BY <1>1, <1>2 DEF Numbers, Pending, Held, AtRest, Editing, Swapping

LEMMA CreateConfigSound ==
  ASSUME FlowsInv, NEW q \in FlowRequests, CreateConfig(q)
  PROVE  \E r : FlowSound(q, r)
<1>1. Numbers(flowReq[q]) = {}
  BY RequestStands, RestFacts DEF CreateConfig, ServedAtOnce, AtRest
<1>2. FlowSound(q, OverFlowRequest)
  BY <1>1, TablesTyped, LeaveSound DEF CreateConfig, ServedAtOnce, FlowRequestEnds
<1> QED
  BY <1>2

LEMMA FailSound ==
  ASSUME FlowsInv, NEW q \in FlowRequests, FlowRequestFails(q),
         UNCHANGED <<flowRows, builtIn, execRow, configRows, spent, stale>>
  PROVE  \E r : FlowSound(q, r)
<1>1. mixed' = mixed \cup Numbers(flowReq[q]) /\ Numbers(flowReq[q]) \subseteq FlowIds
  BY ConcernsNumbers, RequestStands, RequestTypes DEF FlowRequestFails
<1>2. FlowSound(q, OverFlowRequest)
  BY <1>1, TablesTyped, LeaveSound DEF FlowRequestFails, FlowRequestEnds
<1> QED
  BY <1>2

\* A request outside a copy, which leaves its one flow in order.
LEMMA EndSound ==
  ASSUME FlowsInv, NEW q \in FlowRequests, FlowRequestEnds(q), flowReq[q].step \notin Copying,
         UNCHANGED <<flowRows, builtIn, execRow, configRows, spent, stale, mixed>>,
         flowReq[q].flow \in flowRows \ mixed => DenseFlow(flowReq[q].flow)
  PROVE  \E r : FlowSound(q, r)
<1>1. flowReq[q].frames = <<>>
  BY RequestStands DEF FramesFit
<1>2. Numbers(flowReq[q]) \subseteq {flowReq[q].flow}
  BY <1>1 DEF Numbers, Copies
<1>3. FlowSound(q, OverFlowRequest)
  BY <1>2, TablesTyped, LeaveSound DEF FlowRequestEnds
<1> QED
  BY <1>3

LEMMA CutFlowRequestSound ==
  ASSUME FlowsInv, NEW q \in FlowRequests, CutFlowRequest(q)
  PROVE  \E r : FlowSound(q, r)
BY FailSound DEF CutFlowRequest

LEMMA PostCopySound ==
  ASSUME FlowsInv, NEW q \in FlowRequests, PostCopy(q)
  PROVE  \E r : FlowSound(q, r)
<1>1. PICK f \in flowRows :
       flowReq' = [flowReq EXCEPT ![q] = [IdleFlowRequest EXCEPT !.step = "copy", !.sub = f, !.index = flowRows]]
  BY DEF PostCopy
<1>2. PICK r : r = [IdleFlowRequest EXCEPT !.step = "copy", !.sub = f, !.index = flowRows]
  OBVIOUS
<1>3. /\ r \in FlowRequest /\ r.step = "copy" /\ r.flow = Nil /\ r.frames = <<>> /\ r.sub = f
      /\ r.peer = Nil /\ r.exec = Nil
  <2>1. "copy" \in FlowSteps
    BY DEF FlowSteps
  <2> QED
    BY <1>2, <2>1, IdleFlowFacts, TablesTyped DEF FlowRequest
<1>4. DOMAIN r.frames = {} /\ Copies(r) = {}
  BY <1>3 DEF Copies
<1>5. Numbers(r) = {} /\ Pending(r) = {} /\ Held(r) = {}
  BY <1>3, <1>4 DEF Numbers, Pending, Held, Editing, Swapping
<1>6. FlowFits(r)
  BY <1>3, <1>4, TablesTyped DEF FlowFits, FlowShaped, FramesFit, AtRest, Copying, Editing, Swapping
<1>7. FlowDrawn(r) /\ RowsAgree(r) /\ HeldConfigs(r)'
  BY <1>3, <1>5, TablesTyped DEF FlowDrawn, RowsAgree, Agrees, HeldConfigs
<1>8. Numbers(flowReq[q]) = {}
  BY RequestStands, RestFacts DEF PostCopy, AtRest
<1>9. flowReq' = [flowReq EXCEPT ![q] = r] /\ UNCHANGED <<flowRows, builtIn, execRow, configRows, spent, stale, mixed>>
  BY <1>1, <1>2 DEF PostCopy
<1>10. FlowSound(q, r)
  BY <1>3, <1>4, <1>5, <1>6, <1>7, <1>8, <1>9, TablesTyped, ReadSound
<1> QED
  BY <1>10

LEMMA NextPrioritySound ==
  ASSUME FlowsInv, NEW q \in FlowRequests, NextPriority(q)
  PROVE  \E r : FlowSound(q, r)
<1>1. PICK s \in FlowRequest : s = flowReq[q]
  BY RequestStands
<1>2. /\ FlowFits(s) /\ FlowShaped(s) /\ FramesFit(s) /\ FlowDrawn(s) /\ RowsAgree(s) /\ HeldConfigs(s) /\ Knows(s)
      /\ s.step = "count"
  BY <1>1, RequestStands DEF NextPriority
<1>3. s.flow \in FlowIds /\ s.flow # Nil /\ s.exec = Nil /\ s.peer = Nil /\ s.frames = <<>> /\ s.sub \in FlowIds \cup {Nil}
  BY <1>2 DEF FlowShaped, FramesFit, FlowRequest, AtRest, Copying, Editing, Swapping
<1>4. PICK row : row = [parent |-> s.flow, sub |-> s.sub, config |-> Nil, priority |-> Cardinality(RowsOf(s.flow))]
  OBVIOUS
<1>5. /\ row \in ExecRow /\ row # Nil /\ row.parent = s.flow /\ row.sub = s.sub /\ row.config = Nil
      /\ row.priority = Cardinality(RowsOf(s.flow))
  <2>1. Cardinality(RowsOf(s.flow)) \in FlowPriorities
    BY NumberedFlows DEF FlowPriorities
  <2>2. row \in ExecRow
    BY <1>3, <1>4, <2>1 DEF ExecRow
  <2> QED
    BY <1>4, <2>2, AuthFlowsAssumption
<1>6. PICK r : r = [s EXCEPT !.step = "place", !.row = row]
  OBVIOUS
<1>7. /\ r \in FlowRequest /\ r.step = "place" /\ r.flow = s.flow /\ r.frames = <<>> /\ r.sub = s.sub
      /\ r.peer = Nil /\ r.exec = Nil /\ r.row = row
  <2>1. "place" \in FlowSteps
    BY DEF FlowSteps
  <2> QED
    BY <1>3, <1>5, <1>6, <2>1 DEF FlowRequest
<1>8. DOMAIN r.frames = {} /\ Copies(r) = {} /\ Copies(s) = {}
  BY <1>3, <1>7 DEF Copies
<1>9. Numbers(r) = Numbers(s) /\ Pending(r) = Pending(s) /\ Held(r) = {}
  BY <1>2, <1>3, <1>7, <1>8 DEF Numbers, Pending, Held, Editing, Swapping
<1>10. FlowFits(r)
  BY <1>3, <1>5, <1>7, <1>8 DEF FlowFits, FlowShaped, FramesFit, AtRest, Copying, Editing, Swapping
<1>11. FlowDrawn(r) /\ RowsAgree(r) /\ HeldConfigs(r)'
  BY <1>2, <1>7, <1>9, TablesTyped DEF FlowDrawn, RowsAgree, Agrees, HeldConfigs
<1>12. flowReq' = [flowReq EXCEPT ![q] = r] /\ UNCHANGED <<flowRows, builtIn, execRow, configRows, spent, stale, mixed>>
  BY <1>1, <1>4, <1>6 DEF NextPriority, FlowsInv, FlowsTypeOK
<1>13. r.flow \in flowRows \ mixed' => KnowsFlow(r)
  BY <1>2, <1>5, <1>7, <1>12 DEF Knows, KnowsFlow, Swapping
<1>14. FlowSound(q, r)
  BY <1>1, <1>7, <1>8, <1>9, <1>10, <1>11, <1>12, <1>13, TablesTyped, ReadSound
<1> QED
  BY <1>14

LEMMA FindNeighbourSound ==
  ASSUME FlowsInv, NEW q \in FlowRequests, FindNeighbour(q)
  PROVE  \E r : FlowSound(q, r)
<1>1. PICK s \in FlowRequest : s = flowReq[q]
  BY RequestStands
<1>2. /\ FlowFits(s) /\ FlowShaped(s) /\ FramesFit(s) /\ FlowDrawn(s) /\ RowsAgree(s) /\ HeldConfigs(s) /\ Knows(s)
      /\ s.step = "siblings"
  BY <1>1, RequestStands DEF FindNeighbour
<1>3. UNCHANGED <<flowRows, builtIn, execRow, configRows, spent, stale, mixed>>
  BY DEF FindNeighbour
<1>4. CASE FlowRequestEnds(q)
  BY <1>1, <1>2, <1>3, <1>4, EndSound DEF Knows, KnowsFlow, Copying
<1>5. ASSUME NEW o \in Live, s.exec \in Live, Neighbours(o, s.exec) \/ Neighbours(s.exec, o),
             flowReq' = [flowReq EXCEPT ![q].step = "swap", ![q].peer = o, ![q].peerRow = execRow[o]]
      PROVE  \E r : FlowSound(q, r)
  <2>1. o # s.exec /\ execRow[o].parent = execRow[s.exec].parent
    BY <1>5 DEF Neighbours
  <2>2. s.flow # Nil /\ s.exec # Nil /\ s.sub = Nil /\ s.frames = <<>> /\ s.row # Nil /\ s.row.parent = s.flow
        /\ s.exec \in ExecIds
    BY <1>2 DEF FlowShaped, FramesFit, FlowRequest, AtRest, Copying, Editing, Swapping
  <2>3. execRow[s.exec].parent = s.flow
    BY <1>2, <1>5, <2>2 DEF RowsAgree, Agrees
  <2>4. PICK r : r = [s EXCEPT !.step = "swap", !.peer = o, !.peerRow = execRow[o]]
    OBVIOUS
  <2>5. /\ r \in FlowRequest /\ r.step = "swap" /\ r.flow = s.flow /\ r.frames = <<>> /\ r.sub = Nil
        /\ r.peer = o /\ r.peerRow = execRow[o] /\ r.exec = s.exec /\ r.row = s.row /\ r.late = s.late
    <3>1. "swap" \in FlowSteps
      BY DEF FlowSteps
    <3> QED
      BY <2>2, <2>4, <3>1, LiveFacts DEF FlowRequest
  <2>6. DOMAIN r.frames = {} /\ Copies(r) = {} /\ Copies(s) = {} /\ DOMAIN s.frames = {}
    BY <2>2, <2>5 DEF Copies
  <2>7. Numbers(r) = Numbers(s) /\ Pending(r) = {}
    BY <1>2, <2>2, <2>5, <2>6 DEF Numbers, Pending
  <2>8. FlowFits(r)
    BY <2>1, <2>2, <2>3, <2>5, <2>6, LiveFacts
       DEF FlowFits, FlowShaped, FramesFit, AtRest, Copying, Editing, Swapping
  <2>9. FlowDrawn(r) /\ RowsAgree(r)
    BY <1>2, <2>5, <2>7, LiveFacts DEF FlowDrawn, RowsAgree, Agrees
  <2>10. HeldConfigs(r)'
    <3>1. \A p \in Held(r) : p = <<s.exec, s.row>> \/ p = <<o, execRow[o]>>
      BY <2>5, <2>6 DEF Held
    <3>2. <<s.exec, s.row>> \in Held(s)
      BY <1>2 DEF Held, Editing
    <3> QED
      BY <1>2, <1>3, <2>5, <3>1, <3>2, LiveFacts DEF HeldConfigs
  <2>11. flowReq' = [flowReq EXCEPT ![q] = r]
    BY <1>1, <1>5, <2>4 DEF FlowsInv, FlowsTypeOK
  <2>12. r.flow \in flowRows \ mixed' => KnowsFlow(r)
    <3>1. o \in RowsOf(s.flow)
      BY <2>1, <2>3, LiveFacts
    <3> QED
      BY <1>2, <1>3, <2>5, <3>1 DEF Knows, KnowsFlow, Swapping, Current
  <2>13. FlowSound(q, r)
    BY <1>1, <1>3, <2>5, <2>6, <2>7, <2>8, <2>9, <2>10, <2>11, <2>12, TablesTyped, ReadSound
  <2> QED
    BY <2>13
<1> QED
  BY <1>1, <1>4, <1>5 DEF FindNeighbour

-----------------------------------------------------------------------------
(* Copies *)

\* The innermost frame is another one.
LEMMA TopFrame ==
  ASSUME NEW frames \in Seq(CopyFrame), frames # <<>>, NEW x \in CopyFrame
  PROVE  LET fr == [frames EXCEPT ![1] = x] IN
         /\ fr \in Seq(CopyFrame) /\ Len(fr) = Len(frames) /\ fr # <<>>
         /\ DOMAIN fr = DOMAIN frames /\ 1 \in DOMAIN frames /\ fr[1] = x
         /\ \A i \in DOMAIN frames \ {1} : fr[i] = frames[i]
OBVIOUS

LEMMA FrameFacts ==
  ASSUME NEW frame \in CopyFrame
  PROVE  /\ frame.from \in FlowIds /\ frame.to \in FlowIds /\ frame.to # Nil
         /\ frame.todo \subseteq ExecIds \X ExecRow
         /\ Todo(frame) \subseteq ExecIds \X ExecRow
         /\ frame.at = Nil => Todo(frame) = frame.todo
         /\ frame.at # Nil => frame.at \in ExecIds \X ExecRow /\ Todo(frame) = frame.todo \cup {frame.at}
BY AuthFlowsAssumption DEF CopyFrame, Todo

LEMMA ListForCopySound ==
  ASSUME FlowsInv, NEW q \in FlowRequests, ListForCopy(q)
  PROVE  \E r : FlowSound(q, r)
<1> USE DEF FlowsInv
<1>1. PICK s \in FlowRequest : s = flowReq[q]
  BY RequestStands
<1>2. /\ FlowFits(s) /\ FlowShaped(s) /\ FramesFit(s) /\ FlowDrawn(s) /\ RowsAgree(s) /\ HeldConfigs(s) /\ Knows(s)
      /\ s.step = "list"
  BY <1>1, RequestStands DEF ListForCopy
<1>3. /\ s.frames \in Seq(CopyFrame) /\ s.frames # <<>> /\ 1 \in DOMAIN s.frames /\ s.frames[1] \in CopyFrame
      /\ s.flow = Nil /\ s.sub = Nil /\ s.exec = Nil /\ s.peer = Nil
  <2>1. s.frames \in Seq(CopyFrame) /\ s.frames # <<>>
    BY <1>2 DEF FramesFit, FlowRequest
  <2> QED
    BY <1>2, <2>1 DEF FlowShaped, AtRest, Copying, Editing, Swapping
<1>4. PICK top \in CopyFrame : top = s.frames[1]
  BY <1>3
<1>5. top.todo = {} /\ top.at = Nil
  BY <1>2, <1>3, <1>4 DEF FramesFit, FrameFits
<1>6. PICK T : T = {<<e, execRow[e]>> : e \in RowsOf(top.from)}
  OBVIOUS
<1>7. /\ T \subseteq ExecIds \X ExecRow /\ IsFiniteSet(T) /\ Cardinality(T) = Cardinality(RowsOf(top.from))
  <2>1. \A e \in RowsOf(top.from) : e \in Live /\ e \in ExecIds /\ execRow[e] \in ExecRow
    BY LiveFacts DEF RowsOf
  <2>2. DEFINE g == [e \in RowsOf(top.from) |-> <<e, execRow[e]>>]
  <2>3. g \in Bijection(RowsOf(top.from), T)
    BY <1>6 DEF Bijection, Injection, Surjection, IsInjective
  <2>4. IsFiniteSet(RowsOf(top.from))
    BY NumberedFlows
  <2>5. ExistsBijection(RowsOf(top.from), T)
    BY <2>3 DEF ExistsBijection
  <2> QED
    BY <1>6, <2>1, <2>4, <2>5, FS_Bijection
<1>8. PICK x : x = [top EXCEPT !.todo = T]
  OBVIOUS
<1>9. x \in CopyFrame /\ x.from = top.from /\ x.to = top.to /\ x.todo = T /\ x.at = Nil
  BY <1>5, <1>7, <1>8 DEF CopyFrame
<1>10. PICK fr : fr = [s.frames EXCEPT ![1] = x]
  OBVIOUS
<1>11. /\ fr \in Seq(CopyFrame) /\ fr # <<>> /\ DOMAIN fr = DOMAIN s.frames /\ fr[1] = x
       /\ \A i \in DOMAIN s.frames \ {1} : fr[i] = s.frames[i]
  BY <1>3, <1>9, <1>10, TopFrame
<1>12. PICK r : r = [s EXCEPT !.step = "rows", !.frames = fr]
  OBVIOUS
<1>13. /\ r \in FlowRequest /\ r.step = "rows" /\ r.flow = Nil /\ r.frames = fr /\ r.sub = Nil /\ r.exec = Nil
       /\ r.peer = Nil /\ r.late = s.late
  <2>1. "rows" \in FlowSteps
    BY DEF FlowSteps
  <2> QED
    BY <1>3, <1>11, <1>12, <2>1 DEF FlowRequest
<1>14. /\ flowReq' = [flowReq EXCEPT ![q] = r] /\ UNCHANGED <<flowRows, builtIn, execRow, configRows, spent, stale>>
       /\ mixed' = IF top.from \in mixed \/ ~Quiet(top.from) THEN mixed \cup {top.to} ELSE mixed
  BY <1>1, <1>4, <1>6, <1>8, <1>10, <1>12 DEF ListForCopy, Top, FlowsTypeOK
<1>15. Copies(r) = Copies(s)
  <2>1. \A i \in DOMAIN s.frames : fr[i].to = s.frames[i].to
    BY <1>4, <1>9, <1>11
  <2> QED
    BY <1>11, <1>13, <2>1 DEF Copies
<1>16. Numbers(r) = Numbers(s) /\ Pending(r) = Pending(s)
  BY <1>2, <1>3, <1>13, <1>15 DEF Numbers, Pending
<1>17. FlowFits(r)
  <2>1. FlowShaped(r)
    BY <1>13 DEF FlowShaped, AtRest, Copying, Editing, Swapping
  <2>2. Nil \notin T
    BY <1>7, AuthFlowsAssumption
  <2>3. ASSUME NEW i \in DOMAIN fr PROVE FrameFits(r, i)
    <3>1. FrameFits(s, i)
      BY <1>2, <1>11, <2>3 DEF FramesFit
    <3>2. \A j \in DOMAIN s.frames : fr[j].to = s.frames[j].to
      BY <1>4, <1>9, <1>11
    <3>3. CASE i = 1
      BY <1>4, <1>7, <1>9, <1>11, <1>13, <2>2, <3>1, <3>2, <3>3 DEF FrameFits
    <3>4. CASE i # 1
      BY <1>2, <1>11, <1>13, <3>1, <3>2, <3>4 DEF FrameFits
    <3> QED
      BY <3>3, <3>4
  <2> QED
    BY <1>11, <1>13, <2>1, <2>3 DEF FlowFits, FramesFit, Copying
<1>18. FlowDrawn(r) /\ RowsAgree(r)
  BY <1>2, <1>13, <1>16, TablesTyped DEF FlowDrawn, RowsAgree, Agrees
<1>19. HeldConfigs(r)'
  <2> SUFFICES ASSUME ~s.late, NEW p \in Held(r) PROVE p[2].config \in configRows' \cup {Nil} \/ p[1] \in stale'
    BY <1>13 DEF HeldConfigs
  <2>1. PICK i \in DOMAIN fr : p \in Todo(fr[i])
    BY <1>13 DEF Held, Editing, Swapping
  <2>2. CASE i = 1
    <3>1. p \in T
      BY <1>9, <1>11, <2>1, <2>2, FrameFacts
    <3>2. PICK e \in Live : p = <<e, execRow[e]>>
      BY <1>6, <3>1 DEF RowsOf
    <3> QED
      BY <1>14, <3>2, LiveFacts
  <2>3. CASE i # 1
    <3>1. p \in Held(s)
      BY <1>11, <2>1, <2>3 DEF Held
    <3> QED
      BY <1>2, <1>14, <3>1 DEF HeldConfigs
  <2> QED
    BY <2>2, <2>3
<1>20. ASSUME NEW i \in DOMAIN r.frames, r.frames[i].to \in flowRows \ mixed'
       PROVE  KnowsFrame(r.frames[i])
  <2>1. r.frames[i].to = s.frames[i].to /\ s.frames[i].to \in flowRows \ mixed
    BY <1>4, <1>9, <1>11, <1>13, <1>14, <1>20
  <2>2. CASE i # 1
    BY <1>2, <1>11, <1>13, <2>1, <2>2 DEF Knows
  <2>3. CASE i = 1
    <3>1. RowsOf(top.to) = {}
      BY <1>2, <1>3, <1>4, <2>1, <2>3 DEF Knows
    <3>2. top.from \notin mixed /\ Quiet(top.from)
      BY <1>4, <1>14, <1>20, <2>1, <2>3
    <3>3. DenseFlow(top.from)
      <4>1. CASE top.from \in flowRows
        BY <3>2, <4>1 DEF PrioritiesDense, DenseFlow, Priorities
      <4>2. CASE top.from \notin flowRows
        <5>1. RowsOf(top.from) = {}
          BY <4>2 DEF RowsOf, FlowsTypeOK
        <5> QED
          BY <5>1, FS_EmptySet DEF DenseFlow, Priorities
      <4> QED
        BY <4>1, <4>2
    <3>4. Todo(x) = T
      BY <1>9, FrameFacts
    <3>5. TodoPriorities(x) = Priorities(RowsOf(top.from))
      <4>1. \A p \in T : \E e \in RowsOf(top.from) : p[2].priority = execRow[e].priority
        BY <1>6
      <4>2. \A e \in RowsOf(top.from) : \E p \in T : p[2].priority = execRow[e].priority
        <5> SUFFICES ASSUME NEW e \in RowsOf(top.from) PROVE \E p \in T : p[2].priority = execRow[e].priority
          OBVIOUS
        <5>1. <<e, execRow[e]>> \in T /\ <<e, execRow[e]>>[2].priority = execRow[e].priority
          BY <1>6
        <5> QED
          BY <5>1
      <4> QED
        BY <3>4, <4>1, <4>2 DEF TodoPriorities, Priorities
    <3>6. Priorities(RowsOf(x.to)) = {} /\ Cardinality(RowsOf(x.to)) = 0
      BY <1>9, <3>1, FS_EmptySet DEF Priorities
    <3>7. Cardinality(Todo(x)) \in Nat
      BY <1>7, <3>4, FS_CardinalityType
    <3>8. KnowsFrame(x)
      BY <1>7, <3>3, <3>4, <3>5, <3>6, <3>7 DEF KnowsFrame, DenseFlow
    <3> QED
      BY <1>11, <1>13, <2>3, <3>8
  <2> QED
    BY <2>2, <2>3
<1>21. mixed \subseteq mixed' /\ mixed' \subseteq FlowIds
  BY <1>14, TablesTyped, FrameFacts
<1>22. FlowSound(q, r)
  BY <1>1, <1>13, <1>14, <1>16, <1>17, <1>18, <1>19, <1>20, <1>21, TablesTyped, ReadSound
<1> QED
  BY <1>22

\* copyFlowTree goes down into the sub-flow of a row.
LEMMA CopyDownSound ==
  ASSUME FlowsInv, NEW q \in FlowRequests, flowReq[q].step = "rows", NEW p \in Top(q).todo,
         p[2].sub \in flowReq[q].index,
         flowReq' = [flowReq EXCEPT ![q].step = "copy", ![q].sub = p[2].sub,
                       ![q].frames = [[flowReq[q].frames EXCEPT ![1].todo = @ \ {p}] EXCEPT ![1].at = p]],
         UNCHANGED <<flowRows, builtIn, execRow, configRows, spent, stale, mixed>>
  PROVE  \E r : FlowSound(q, r)
<1> USE DEF FlowsInv
<1>1. PICK s \in FlowRequest : s = flowReq[q]
  BY RequestStands
<1>2. /\ FlowFits(s) /\ FlowShaped(s) /\ FramesFit(s) /\ FlowDrawn(s) /\ RowsAgree(s) /\ HeldConfigs(s) /\ Knows(s)
      /\ s.step = "rows"
  BY <1>1, RequestStands
<1>3. /\ s.frames \in Seq(CopyFrame) /\ s.frames # <<>> /\ 1 \in DOMAIN s.frames /\ s.frames[1] \in CopyFrame
      /\ s.flow = Nil /\ s.sub = Nil /\ s.exec = Nil /\ s.peer = Nil
  <2>1. s.frames \in Seq(CopyFrame) /\ s.frames # <<>>
    BY <1>2 DEF FramesFit, FlowRequest
  <2> QED
    BY <1>2, <2>1 DEF FlowShaped, AtRest, Copying, Editing, Swapping
<1>4. PICK top \in CopyFrame : top = s.frames[1]
  BY <1>3
<1>5. /\ top.at = Nil /\ p \in top.todo /\ IsFiniteSet(top.todo) /\ p \in ExecIds \X ExecRow /\ p # Nil
      /\ p[2].sub \in FlowIds /\ p[2].sub # Nil
  <2>1. top.at = Nil /\ IsFiniteSet(top.todo)
    BY <1>2, <1>3, <1>4 DEF FramesFit, FrameFits
  <2>2. p \in top.todo
    BY <1>1, <1>4 DEF Top
  <2>3. p[2].sub \in FlowIds
    BY <1>1 DEF FlowRequest
  <2> QED
    BY <2>1, <2>2, <2>3, FrameFacts, TablesTyped, AuthFlowsAssumption
<1>6. PICK x : x = [top EXCEPT !.todo = @ \ {p}, !.at = p]
  OBVIOUS
<1>7. x \in CopyFrame /\ x.from = top.from /\ x.to = top.to /\ x.todo = top.todo \ {p} /\ x.at = p
  BY <1>5, <1>6 DEF CopyFrame
<1>8. Todo(x) = Todo(top)
  <2>1. Todo(top) = top.todo /\ Todo(x) = x.todo \cup {p}
    BY <1>5, <1>7, FrameFacts
  <2> QED
    BY <1>5, <1>7, <2>1
<1>9. PICK fr : fr = [s.frames EXCEPT ![1] = x]
  OBVIOUS
<1>10. /\ fr \in Seq(CopyFrame) /\ fr # <<>> /\ DOMAIN fr = DOMAIN s.frames /\ fr[1] = x
       /\ \A i \in DOMAIN s.frames \ {1} : fr[i] = s.frames[i]
  BY <1>3, <1>7, <1>9, TopFrame
<1>11. PICK r : r = [s EXCEPT !.step = "copy", !.sub = p[2].sub, !.frames = fr]
  OBVIOUS
<1>12. /\ r \in FlowRequest /\ r.step = "copy" /\ r.flow = Nil /\ r.frames = fr /\ r.sub = p[2].sub /\ r.exec = Nil
       /\ r.peer = Nil /\ r.late = s.late
  <2>1. "copy" \in FlowSteps
    BY DEF FlowSteps
  <2> QED
    BY <1>3, <1>5, <1>10, <1>11, <2>1 DEF FlowRequest
<1>13. flowReq' = [flowReq EXCEPT ![q] = r]
  <2>1. fr = [[s.frames EXCEPT ![1].todo = @ \ {p}] EXCEPT ![1].at = p]
    BY <1>3, <1>4, <1>6, <1>9
  <2>2. flowReq' = [flowReq EXCEPT ![q].step = "copy", ![q].sub = p[2].sub, ![q].frames = fr]
    BY <1>1, <2>1
  <2> QED
    BY <1>1, <1>11, <2>2 DEF FlowsTypeOK
<1>14. \A i \in DOMAIN s.frames : fr[i].to = s.frames[i].to /\ Todo(fr[i]) = Todo(s.frames[i])
  BY <1>4, <1>7, <1>8, <1>10
<1>15. Copies(r) = Copies(s)
  BY <1>10, <1>12, <1>14 DEF Copies
<1>16. Numbers(r) = Numbers(s) /\ Pending(r) = Pending(s)
  BY <1>2, <1>3, <1>12, <1>15 DEF Numbers, Pending
<1>17. FlowFits(r)
  <2>1. FlowShaped(r)
    BY <1>5, <1>12 DEF FlowShaped, AtRest, Copying, Editing, Swapping
  <2>2. IsFiniteSet(top.todo \ {p})
    BY <1>5, FS_RemoveElement
  <2>3. ASSUME NEW i \in DOMAIN fr PROVE FrameFits(r, i)
    <3>1. FrameFits(s, i)
      BY <1>2, <1>10, <2>3 DEF FramesFit
    <3>2. CASE i = 1
      <4>1. r.frames[i].at # Nil /\ IsFiniteSet(r.frames[i].todo) /\ r.frames[i].at \notin r.frames[i].todo
        BY <1>5, <1>7, <1>10, <1>12, <2>2, <3>2
      <4>2. \A j \in DOMAIN r.frames : j # i => r.frames[j].to # r.frames[i].to
        BY <1>10, <1>12, <1>14, <3>1 DEF FrameFits
      <4> QED
        BY <1>12, <4>1, <4>2 DEF FrameFits
    <3>3. CASE i # 1
      BY <1>2, <1>10, <1>12, <1>14, <3>1, <3>3 DEF FrameFits
    <3> QED
      BY <3>2, <3>3
  <2> QED
    BY <1>10, <1>12, <2>1, <2>3 DEF FlowFits, FramesFit, Copying
<1>18. FlowDrawn(r) /\ RowsAgree(r)
  BY <1>2, <1>12, <1>16, TablesTyped DEF FlowDrawn, RowsAgree, Agrees
<1>19. HeldConfigs(r)'
  <2>1. Held(r) \subseteq Held(s)
    BY <1>10, <1>12, <1>14 DEF Held, Editing, Swapping
  <2> QED
    BY <1>2, <1>12, <2>1 DEF HeldConfigs
<1>20. ASSUME NEW i \in DOMAIN r.frames, r.frames[i].to \in flowRows \ mixed'
       PROVE  KnowsFrame(r.frames[i])
  <2>1. KnowsFrame(s.frames[i])
    BY <1>2, <1>10, <1>12, <1>14, <1>20 DEF Knows
  <2> QED
    BY <1>10, <1>12, <1>14, <2>1 DEF KnowsFrame, TodoPriorities
<1>21. FlowSound(q, r)
  BY <1>1, <1>12, <1>13, <1>16, <1>17, <1>18, <1>19, <1>20, TablesTyped, ReadSound
<1> QED
  BY <1>21

-----------------------------------------------------------------------------
(* New flows *)

LEMMA FreshFlow ==
  ASSUME FlowsInv, NEW f \in FlowIds \ spent
  PROVE  RowsOf(f) = {} /\ f \notin flowRows /\ \A q \in FlowRequests : f \notin Numbers(flowReq[q])
BY RequestStands DEF FlowsInv, FlowsTypeOK, TablesDrawn, RowsOf, FlowDrawn

LEMMA FlowMadeSound ==
  ASSUME FlowsInv, NEW q \in FlowRequests, NEW r \in FlowRequest, flowReq' = [flowReq EXCEPT ![q] = r],
         NEW f \in FlowIds \ spent, flowRows' = flowRows \cup {f}, spent' = spent \cup {f},
         builtIn' \in SUBSET FlowIds, UNCHANGED <<execRow, configRows, stale, mixed>>,
         FlowFits(r), FlowDrawn(r)', RowsAgree(r), HeldConfigs(r),
         r.flow \in flowRows' \ mixed => KnowsFlow(r),
         \A i \in DOMAIN r.frames :
           r.frames[i].to \in flowRows' \ mixed =>
             /\ KnowsFrame(r.frames[i])
             /\ i = 1 /\ r.step = "list" => RowsOf(r.frames[i].to) = {},
         Pending(r) \subseteq Pending(flowReq[q]) \cup {f},
         Numbers(flowReq[q]) \subseteq Numbers(r), Numbers(r) \subseteq Numbers(flowReq[q]) \cup {f}
  PROVE  FlowSound(q, r)
<1> USE DEF FlowsInv
<1>1. flowReq' \in [FlowRequests -> FlowRequest] /\ flowReq'[q] = r
      /\ \A o \in FlowRequests \ {q} : flowReq'[o] = flowReq[o]
  BY DEF FlowsTypeOK
<1>2. Live' = Live
  BY DEF Live
<1>3. \A g : RowsOf(g)' = RowsOf(g)
  BY <1>2 DEF RowsOf
<1>4. \A g : SameRows(g)
  BY <1>3 DEF SameRows
<1>5. FlowsTypeOK' /\ TablesDrawn' /\ NoDanglingConfig'
  BY <1>1, <1>2 DEF FlowsTypeOK, TablesDrawn, NoDanglingConfig
<1>6. RowsAgree(r)' /\ HeldConfigs(r)'
  BY <1>2 DEF RowsAgree, Agrees, HeldConfigs
<1>7. Knows(r)'
  <2>1. KnowsFlow(r) => KnowsFlow(r)'
    BY <1>3 DEF KnowsFlow, DenseFlow, Priorities, Current
  <2>2. \A i \in DOMAIN r.frames : KnowsFrame(r.frames[i]) => KnowsFrame(r.frames[i])'
    BY <1>3 DEF KnowsFrame, Priorities
  <2> QED
    BY <1>3, <2>1, <2>2 DEF Knows
<1>8. TablesSound(q, r)
  BY <1>1, <1>5 DEF TablesSound, OtherStays
<1>9. SubsSound(q, r)
  BY <1>2 DEF SubsSound
<1>10. NumbersSound(q, r)
  <2>1. RowsOf(f)' = {}
    BY <1>3, FreshFlow
  <2> QED
    BY <1>4, <2>1 DEF NumbersSound
<1> QED
  BY <1>6, <1>7, <1>8, <1>9, <1>10 DEF FlowSound, Standing

LEMMA CreateFlowSound ==
  ASSUME FlowsInv, NEW q \in FlowRequests, CreateFlow(q)
  PROVE  \E r : FlowSound(q, r)
<1>1. PICK f \in FlowIds \ spent : /\ flowRows' = flowRows \cup {f} /\ spent' = spent \cup {f}
                                   /\ builtIn' \in SUBSET FlowIds
  <2>1. builtIn \in SUBSET FlowIds
    BY DEF FlowsInv, FlowsTypeOK
  <2>2. PICK f \in FlowIds \ spent, b \in BOOLEAN :
         /\ flowRows' = flowRows \cup {f}
         /\ builtIn' = IF b THEN builtIn \cup {f} ELSE builtIn
         /\ spent' = spent \cup {f}
    BY DEF CreateFlow
  <2> QED
    BY <2>1, <2>2
<1>2. PICK r : r = OverFlowRequest
  OBVIOUS
<1>3. /\ r \in FlowRequest /\ FlowFits(r) /\ Pending(r) = {} /\ Numbers(r) = {} /\ Held(r) = {}
      /\ r.exec = Nil /\ r.peer = Nil /\ r.frames = <<>> /\ r.flow = Nil /\ DOMAIN r.frames = {}
  BY <1>2, OverFlowFacts
<1>4. FlowDrawn(r)' /\ RowsAgree(r) /\ HeldConfigs(r)
  BY <1>3, TablesTyped DEF FlowDrawn, RowsAgree, Agrees, HeldConfigs
<1>5. Numbers(flowReq[q]) = {}
  BY RequestStands, RestFacts DEF CreateFlow, ServedAtOnce, AtRest
<1>6. flowReq' = [flowReq EXCEPT ![q] = r] /\ UNCHANGED <<execRow, configRows, stale, mixed>>
  BY <1>2 DEF CreateFlow, ServedAtOnce, FlowRequestEnds
<1>7. r.flow \notin flowRows'
  BY <1>1, <1>3, TablesTyped
<1>8. FlowSound(q, r)
  BY <1>1, <1>3, <1>4, <1>5, <1>6, <1>7, FlowMadeSound
<1> QED
  BY <1>8

LEMMA CreateSubFlowSound ==
  ASSUME FlowsInv, NEW q \in FlowRequests, CreateSubFlow(q)
  PROVE  \E r : FlowSound(q, r)
<1> USE DEF FlowsInv
<1>1. PICK s \in FlowRequest : s = flowReq[q]
  BY RequestStands
<1>2. /\ FlowFits(s) /\ FlowShaped(s) /\ FramesFit(s) /\ FlowDrawn(s) /\ RowsAgree(s) /\ HeldConfigs(s) /\ Knows(s)
      /\ s.step = "subflow"
  BY <1>1, RequestStands DEF CreateSubFlow
<1>3. s.flow # Nil /\ s.flow \in FlowIds /\ s.exec = Nil /\ s.peer = Nil /\ s.frames = <<>> /\ s.sub = Nil
  BY <1>2 DEF FlowShaped, FramesFit, FlowRequest, AtRest, Copying, Editing, Swapping
<1>4. PICK f \in FlowIds \ spent :
       /\ flowRows' = flowRows \cup {f}
       /\ spent' = spent \cup {f}
       /\ flowReq' = [flowReq EXCEPT ![q].step = "count", ![q].sub = f]
  BY DEF CreateSubFlow
<1>5. PICK r : r = [s EXCEPT !.step = "count", !.sub = f]
  OBVIOUS
<1>6. /\ r \in FlowRequest /\ r.step = "count" /\ r.flow = s.flow /\ r.frames = <<>> /\ r.sub = f
      /\ r.peer = Nil /\ r.exec = Nil
  <2>1. "count" \in FlowSteps
    BY DEF FlowSteps
  <2> QED
    BY <1>3, <1>5, <2>1 DEF FlowRequest
<1>7. DOMAIN r.frames = {} /\ Copies(r) = {} /\ Copies(s) = {}
  BY <1>3, <1>6 DEF Copies
<1>8. Numbers(r) = Numbers(s) /\ Pending(r) \subseteq Pending(s) \cup {f} /\ Held(r) = {}
  BY <1>2, <1>3, <1>6, <1>7 DEF Numbers, Pending, Held, Editing, Swapping
<1>9. FlowFits(r)
  BY <1>3, <1>6, <1>7 DEF FlowFits, FlowShaped, FramesFit, AtRest, Copying, Editing, Swapping
<1>10. FlowDrawn(r)' /\ RowsAgree(r) /\ HeldConfigs(r)
  BY <1>2, <1>4, <1>6, <1>8, TablesTyped DEF FlowDrawn, RowsAgree, Agrees, HeldConfigs
<1>11. flowReq' = [flowReq EXCEPT ![q] = r] /\ UNCHANGED <<builtIn, execRow, configRows, stale, mixed>>
  BY <1>1, <1>4, <1>5 DEF CreateSubFlow, FlowsTypeOK
<1>12. builtIn' \in SUBSET FlowIds
  BY <1>11 DEF FlowsTypeOK
<1>13. r.flow \in flowRows' \ mixed => KnowsFlow(r)
  <2>1. s.flow # f
    BY <1>1, <1>2, <1>3, FreshFlow DEF Numbers
  <2> QED
    BY <1>2, <1>4, <1>6, <2>1 DEF Knows, KnowsFlow, Swapping
<1>14. FlowSound(q, r)
  BY <1>1, <1>4, <1>6, <1>7, <1>8, <1>9, <1>10, <1>11, <1>12, <1>13, FlowMadeSound
<1> QED
  BY <1>14

LEMMA PushFrame ==
  ASSUME NEW frames \in Seq(CopyFrame), NEW x \in CopyFrame
  PROVE  LET fr == <<x>> \o frames IN
         /\ fr \in Seq(CopyFrame) /\ fr # <<>> /\ 1 \in DOMAIN fr /\ fr[1] = x
         /\ \A i \in DOMAIN fr \ {1} : i - 1 \in DOMAIN frames /\ fr[i] = frames[i - 1]
         /\ \A i \in DOMAIN frames : i + 1 \in DOMAIN fr \ {1} /\ fr[i + 1] = frames[i]
OBVIOUS

LEMMA CopyFlowSound ==
  ASSUME FlowsInv, NEW q \in FlowRequests, CopyFlow(q)
  PROVE  \E r : FlowSound(q, r)
<1> USE DEF FlowsInv
<1>1. PICK s \in FlowRequest : s = flowReq[q]
  BY RequestStands
<1>2. /\ FlowFits(s) /\ FlowShaped(s) /\ FramesFit(s) /\ FlowDrawn(s) /\ RowsAgree(s) /\ HeldConfigs(s) /\ Knows(s)
      /\ s.step = "copy"
  BY <1>1, RequestStands DEF CopyFlow
<1>3. s.frames \in Seq(CopyFrame) /\ s.flow = Nil /\ s.sub \in FlowIds /\ s.exec = Nil /\ s.peer = Nil
  BY <1>2 DEF FlowShaped, FlowRequest, AtRest, Copying, Editing, Swapping
<1>4. PICK f \in FlowIds \ spent :
       /\ flowRows' = flowRows \cup {f}
       /\ spent' = spent \cup {f}
       /\ flowReq' = [flowReq EXCEPT
            ![q].step = "list", ![q].sub = Nil,
            ![q].frames = <<[from |-> flowReq[q].sub, to |-> f, todo |-> {}, at |-> Nil]>> \o @]
  BY DEF CopyFlow
<1>5. PICK x : x = [from |-> s.sub, to |-> f, todo |-> {}, at |-> Nil]
  OBVIOUS
<1>6. x \in CopyFrame /\ x.to = f /\ x.todo = {} /\ x.at = Nil
  BY <1>3, <1>5 DEF CopyFrame
<1>7. PICK fr : fr = <<x>> \o s.frames
  OBVIOUS
<1>8. /\ fr \in Seq(CopyFrame) /\ fr # <<>> /\ 1 \in DOMAIN fr /\ fr[1] = x
      /\ \A i \in DOMAIN fr \ {1} : i - 1 \in DOMAIN s.frames /\ fr[i] = s.frames[i - 1]
      /\ \A i \in DOMAIN s.frames : i + 1 \in DOMAIN fr \ {1} /\ fr[i + 1] = s.frames[i]
  BY <1>3, <1>6, <1>7, PushFrame
<1>9. PICK r : r = [s EXCEPT !.step = "list", !.sub = Nil, !.frames = fr]
  OBVIOUS
<1>10. /\ r \in FlowRequest /\ r.step = "list" /\ r.flow = Nil /\ r.frames = fr /\ r.sub = Nil /\ r.exec = Nil
       /\ r.peer = Nil /\ r.late = s.late
  <2>1. "list" \in FlowSteps
    BY DEF FlowSteps
  <2> QED
    BY <1>3, <1>8, <1>9, <2>1 DEF FlowRequest
<1>11. flowReq' = [flowReq EXCEPT ![q] = r] /\ UNCHANGED <<builtIn, execRow, configRows, stale, mixed>>
  <2>1. flowReq' = [flowReq EXCEPT ![q].step = "list", ![q].sub = Nil, ![q].frames = fr]
    BY <1>1, <1>4, <1>5, <1>7
  <2> QED
    BY <1>1, <1>9, <2>1 DEF CopyFlow, FlowsTypeOK
<1>12. Copies(r) = Copies(s) \cup {f}
  BY <1>6, <1>8, <1>10 DEF Copies
<1>13. Numbers(r) = Numbers(s) \cup {f} /\ Pending(r) = Pending(s) \cup {f} /\ f \notin Copies(s)
  <2>1. f # Nil
    BY TablesTyped
  <2>2. f \notin Numbers(s)
    BY <1>1, FreshFlow
  <2> QED
    BY <1>2, <1>3, <1>10, <1>12, <2>1, <2>2 DEF Numbers, Pending
<1>14. FlowFits(r)
  <2>1. FlowShaped(r)
    BY <1>10 DEF FlowShaped, AtRest, Copying, Editing, Swapping
  <2>2. FrameFits(r, 1)
    <3>1. \A j \in DOMAIN fr : j # 1 => fr[j].to # f
      BY <1>8, <1>13 DEF Copies
    <3> QED
      BY <1>6, <1>8, <1>10, <3>1, FS_EmptySet DEF FrameFits
  <2>3. ASSUME NEW i \in DOMAIN fr \ {1} PROVE FrameFits(r, i)
    <3>1. FrameFits(s, i - 1) /\ fr[i] = s.frames[i - 1] /\ i - 1 \in DOMAIN s.frames
      BY <1>2, <1>8, <2>3 DEF FramesFit
    <3>2. fr[i].at # Nil /\ IsFiniteSet(fr[i].todo) /\ fr[i].at \notin fr[i].todo
      BY <1>2, <3>1 DEF FrameFits
    <3>3. \A j \in DOMAIN fr : j # i => fr[j].to # fr[i].to
      <4> SUFFICES ASSUME NEW j \in DOMAIN fr, j # i PROVE fr[j].to # fr[i].to
        OBVIOUS
      <4>1. CASE j = 1
        BY <1>6, <1>8, <1>13, <3>1, <4>1 DEF Copies
      <4>2. CASE j # 1
        <5>1. j - 1 \in DOMAIN s.frames /\ fr[j] = s.frames[j - 1] /\ j - 1 # i - 1
          <6>1. i \in Nat /\ j \in Nat
            BY <1>8
          <6> QED
            BY <1>8, <4>2, <6>1
        <5> QED
          BY <3>1, <5>1 DEF FrameFits
      <4> QED
        BY <4>1, <4>2
    <3> QED
      BY <1>10, <2>3, <3>2, <3>3 DEF FrameFits
  <2> QED
    BY <1>8, <1>10, <2>1, <2>2, <2>3 DEF FlowFits, FramesFit, Copying
<1>15. FlowDrawn(r)' /\ RowsAgree(r)
  BY <1>2, <1>4, <1>10, <1>13, TablesTyped DEF FlowDrawn, RowsAgree, Agrees
<1>16. HeldConfigs(r)
  <2> SUFFICES ASSUME ~s.late, NEW p \in Held(r) PROVE p[2].config \in configRows \cup {Nil} \/ p[1] \in stale
    BY <1>10 DEF HeldConfigs
  <2>1. PICK i \in DOMAIN fr : p \in Todo(fr[i])
    BY <1>10 DEF Held, Editing, Swapping
  <2>2. i # 1
    BY <1>6, <1>8, <2>1, FrameFacts
  <2>3. p \in Held(s)
    BY <1>8, <2>1, <2>2 DEF Held
  <2> QED
    BY <1>2, <2>3 DEF HeldConfigs
<1>17. r.flow \notin flowRows'
  BY <1>4, <1>10, TablesTyped
<1>18. ASSUME NEW i \in DOMAIN r.frames, r.frames[i].to \in flowRows' \ mixed
       PROVE  /\ KnowsFrame(r.frames[i])
              /\ i = 1 /\ r.step = "list" => RowsOf(r.frames[i].to) = {}
  <2>1. CASE i = 1
    <3>1. RowsOf(x.to) = {}
      BY <1>6, FreshFlow
    <3>2. Todo(x) = {}
      BY <1>6, FrameFacts
    <3>3. Priorities(RowsOf(x.to)) \cup TodoPriorities(x) = {}
      BY <3>1, <3>2 DEF Priorities, TodoPriorities
    <3>4. Cardinality(RowsOf(x.to)) = 0 /\ Cardinality(Todo(x)) = 0
      BY <3>1, <3>2, FS_EmptySet
    <3>5. KnowsFrame(x)
      BY <3>3, <3>4 DEF KnowsFrame
    <3> QED
      BY <1>8, <1>10, <2>1, <3>1, <3>5
  <2>2. CASE i # 1
    <3>1. i - 1 \in DOMAIN s.frames /\ fr[i] = s.frames[i - 1] /\ fr[i].to # f
      BY <1>8, <1>10, <1>13, <2>2 DEF Copies
    <3>2. KnowsFrame(s.frames[i - 1])
      BY <1>2, <1>4, <1>10, <1>18, <3>1 DEF Knows
    <3> QED
      BY <1>10, <2>2, <3>1, <3>2
  <2> QED
    BY <2>1, <2>2
<1>19. builtIn' \in SUBSET FlowIds
  BY <1>11 DEF FlowsTypeOK
<1>20. FlowSound(q, r)
  BY <1>1, <1>4, <1>10, <1>11, <1>13, <1>14, <1>15, <1>16, <1>17, <1>18, <1>19, FlowMadeSound
<1> QED
  BY <1>20

-----------------------------------------------------------------------------
(* New rows *)

LEMMA RowMadeFacts ==
  ASSUME FlowsInv, NEW e \in ExecIds \ spent, NEW row \in ExecRow,
         execRow' = [execRow EXCEPT ![e] = row]
  PROVE  /\ Live' = Live \cup {e} /\ e \notin Live /\ execRow'[e] = row /\ row # Nil
         /\ \A x \in Live : execRow'[x] = execRow[x]
         /\ execRow' \in [ExecIds -> ExecRow \cup {Nil}]
         /\ RowsOf(row.parent)' = RowsOf(row.parent) \cup {e}
         /\ Cardinality(RowsOf(row.parent)') = Cardinality(RowsOf(row.parent)) + 1
         /\ Priorities(RowsOf(row.parent))' = Priorities(RowsOf(row.parent)) \cup {row.priority}
         /\ \A f : f # row.parent => SameRows(f)
<1> USE DEF FlowsInv
<1>1. execRow'[e] = row /\ \A x \in ExecIds \ {e} : execRow'[x] = execRow[x]
  BY DEF FlowsTypeOK
<1>2. e \notin Live /\ row # Nil
  BY AuthFlowsAssumption DEF TablesDrawn
<1>3. Live' = Live \cup {e}
  BY <1>1, <1>2 DEF Live
<1>4. \A x \in Live : execRow'[x] = execRow[x] /\ x # e
  BY <1>1, <1>2 DEF Live
<1>5. RowsOf(row.parent)' = RowsOf(row.parent) \cup {e} /\ e \notin RowsOf(row.parent)
  BY <1>1, <1>2, <1>3, <1>4 DEF RowsOf
<1>6. \A f : f # row.parent => RowsOf(f)' = RowsOf(f)
  BY <1>1, <1>2, <1>3, <1>4 DEF RowsOf
<1>7. \A f : RowsOf(f) \subseteq Live
  BY DEF RowsOf
<1>8. \A f : f # row.parent => SameRows(f)
  BY <1>4, <1>6, <1>7 DEF SameRows
<1>9. Priorities(RowsOf(row.parent))' = Priorities(RowsOf(row.parent)) \cup {row.priority}
  <2>1. Priorities(RowsOf(row.parent))' = {execRow'[x].priority : x \in RowsOf(row.parent) \cup {e}}
    BY <1>5 DEF Priorities
  <2>2. \A x \in RowsOf(row.parent) : execRow'[x].priority = execRow[x].priority
    BY <1>4, <1>7
  <2> QED
    BY <1>1, <2>1, <2>2 DEF Priorities
<1>10. Cardinality(RowsOf(row.parent)') = Cardinality(RowsOf(row.parent)) + 1
  BY <1>5, NumberedFlows, FS_AddElement
<1>11. execRow' \in [ExecIds -> ExecRow \cup {Nil}]
  BY DEF FlowsTypeOK
<1> QED
  BY <1>1, <1>2, <1>3, <1>4, <1>5, <1>8, <1>9, <1>10, <1>11

LEMMA RowMadeSound ==
  ASSUME FlowsInv, NEW q \in FlowRequests, NEW r \in FlowRequest, flowReq' = [flowReq EXCEPT ![q] = r],
         NEW e \in ExecIds \ spent, NEW row \in ExecRow, row.parent \in flowRows,
         execRow' = [execRow EXCEPT ![e] = row], spent' = spent \cup {e},
         stale \subseteq stale', stale' \subseteq stale \cup {e},
         UNCHANGED <<flowRows, builtIn, configRows>>, mixed \subseteq mixed', mixed' \subseteq FlowIds,
         row.config \in configRows \cup {Nil} \/ e \in stale',
         row.sub \in {Nil} \cup (Pending(flowReq[q]) \ Pending(r)),
         row.parent \in Numbers(flowReq[q]) \cup mixed',
         FlowFits(r), FlowDrawn(r), r.exec = Nil, r.peer = Nil, HeldConfigs(r), Knows(r)',
         Pending(r) \subseteq Pending(flowReq[q]), Numbers(r) \subseteq Numbers(flowReq[q]),
         \A f \in flowRows \ mixed' : f \in Numbers(flowReq[q]) \ Numbers(r) => DenseFlow(f)'
  PROVE  FlowSound(q, r)
<1> USE DEF FlowsInv
<1>1. flowReq' \in [FlowRequests -> FlowRequest] /\ flowReq'[q] = r
      /\ \A o \in FlowRequests \ {q} : flowReq'[o] = flowReq[o]
  BY DEF FlowsTypeOK
<1>2. /\ Live' = Live \cup {e} /\ e \notin Live /\ execRow'[e] = row
      /\ \A x \in Live : execRow'[x] = execRow[x]
      /\ execRow' \in [ExecIds -> ExecRow \cup {Nil}]
      /\ \A f : f # row.parent => SameRows(f)
  BY RowMadeFacts
<1>3. FlowsTypeOK'
  BY <1>1, <1>2 DEF FlowsTypeOK
<1>4. TablesDrawn'
  <2>1. row.sub \in spent \cup {Nil}
    BY RequestStands DEF FlowDrawn
  <2> QED
    BY <1>2, <2>1 DEF TablesDrawn
<1>5. NoDanglingConfig'
  BY <1>2 DEF NoDanglingConfig
<1>6. FlowDrawn(r)' /\ HeldConfigs(r)'
  BY DEF FlowDrawn, HeldConfigs
<1>7. RowsAgree(r)'
  <2>1. Nil \notin Live'
    BY <1>2, TablesTyped
  <2> QED
    BY <2>1 DEF RowsAgree, Agrees
<1>8. TablesSound(q, r)
  BY <1>1, <1>3, <1>4, <1>5 DEF TablesSound, OtherStays
<1>9. SubsSound(q, r)
  BY <1>2 DEF SubsSound
<1>10. NumbersSound(q, r)
  BY <1>2 DEF NumbersSound
<1> QED
  BY <1>6, <1>7, <1>8, <1>9, <1>10 DEF FlowSound, Standing

LEMMA CreateNumberedExecutionSound ==
  ASSUME FlowsInv, NEW q \in FlowRequests, CreateNumberedExecution(q)
  PROVE  \E r : FlowSound(q, r)
<1>1. PICK e \in ExecIds \ spent, f \in flowRows \ builtIn, p \in CallerPriorities :
       /\ execRow' = [execRow EXCEPT ![e] = [parent |-> f, sub |-> Nil, config |-> Nil, priority |-> p]]
       /\ spent' = spent \cup {e}
       /\ mixed' = mixed \cup {f}
  BY DEF CreateNumberedExecution
<1>2. PICK row : row = [parent |-> f, sub |-> Nil, config |-> Nil, priority |-> p]
  OBVIOUS
<1>3. row \in ExecRow /\ row.parent = f /\ row.sub = Nil /\ row.config = Nil
  <2>1. p \in FlowPriorities /\ f \in FlowIds
    BY TablesTyped DEF FlowPriorities
  <2> QED
    BY <1>2, <2>1 DEF ExecRow
<1>4. PICK r : r = OverFlowRequest
  OBVIOUS
<1>5. /\ r \in FlowRequest /\ FlowFits(r) /\ Pending(r) = {} /\ Numbers(r) = {} /\ Held(r) = {}
      /\ r.exec = Nil /\ r.peer = Nil /\ r.flow = Nil /\ r.frames = <<>>
  BY <1>4, OverFlowFacts
<1>6. /\ flowReq' = [flowReq EXCEPT ![q] = r] /\ flowReq[q].step = "idle"
      /\ UNCHANGED <<flowRows, builtIn, configRows, stale>>
  BY <1>4 DEF CreateNumberedExecution, ServedAtOnce, FlowRequestEnds
<1>7. FlowDrawn(r) /\ HeldConfigs(r)
  BY <1>5 DEF FlowDrawn, HeldConfigs
<1>8. Knows(r)'
  <2>1. DOMAIN r.frames = {} /\ r.flow \notin flowRows'
    BY <1>5, <1>6, TablesTyped
  <2> QED
    BY <2>1 DEF Knows
<1>9. Numbers(flowReq[q]) = {}
  BY <1>6, RequestStands, RestFacts DEF AtRest
<1>10. mixed' \subseteq FlowIds /\ execRow' = [execRow EXCEPT ![e] = row]
  BY <1>1, <1>2, TablesTyped
<1>11. FlowSound(q, r)
  BY <1>1, <1>3, <1>5, <1>6, <1>7, <1>8, <1>9, <1>10, RowMadeSound
<1> QED
  BY <1>11

LEMMA PlaceExecutionSound ==
  ASSUME FlowsInv, NEW q \in FlowRequests, PlaceExecution(q)
  PROVE  \E r : FlowSound(q, r)
<1>1. PICK s \in FlowRequest : s = flowReq[q]
  BY RequestStands
<1>2. /\ FlowFits(s) /\ FlowShaped(s) /\ FramesFit(s) /\ FlowDrawn(s) /\ HeldConfigs(s) /\ Knows(s)
      /\ s.step = "place"
  BY <1>1, RequestStands DEF PlaceExecution
<1>3. /\ s.flow # Nil /\ s.frames = <<>> /\ s.row \in ExecRow /\ s.row.parent = s.flow
      /\ s.row.sub = s.sub /\ s.row.config = Nil
  BY <1>2 DEF FlowShaped, FramesFit, FlowRequest, AtRest, Copying, Editing, Swapping
<1>4. Numbers(s) = {s.flow} /\ Pending(s) = {s.sub} \ {Nil}
  <2>1. Copies(s) = {}
    BY <1>3 DEF Copies
  <2> QED
    BY <1>2, <1>3, <2>1 DEF Numbers, Pending
<1>5. CASE s.flow \in flowRows
  <2>1. PICK e \in ExecIds \ spent :
          CreateExecution(q, e, s.row, FALSE) /\ FlowRequestEnds(q) /\ UNCHANGED mixed
    BY <1>1, <1>5 DEF PlaceExecution
  <2>2. PICK r : r = OverFlowRequest
    OBVIOUS
  <2>3. /\ r \in FlowRequest /\ FlowFits(r) /\ Pending(r) = {} /\ Numbers(r) = {} /\ Held(r) = {}
        /\ r.exec = Nil /\ r.peer = Nil /\ r.flow = Nil /\ r.frames = <<>>
    BY <2>2, OverFlowFacts
  <2>4. /\ flowReq' = [flowReq EXCEPT ![q] = r] /\ UNCHANGED <<flowRows, builtIn, configRows, stale, mixed>>
        /\ execRow' = [execRow EXCEPT ![e] = s.row] /\ spent' = spent \cup {e}
    BY <2>1, <2>2 DEF PlaceExecution, CreateExecution, FlowRequestEnds
  <2>5. FlowDrawn(r) /\ HeldConfigs(r)
    BY <2>3 DEF FlowDrawn, HeldConfigs
  <2>6. Knows(r)'
    <3>1. DOMAIN r.frames = {} /\ r.flow \notin flowRows'
      BY <2>3, <2>4, TablesTyped
    <3> QED
      BY <3>1 DEF Knows
  <2>7. ASSUME s.flow \notin mixed PROVE DenseFlow(s.flow)'
    <3>1. DenseFlow(s.flow) /\ s.row.priority = Cardinality(RowsOf(s.flow))
      BY <1>2, <1>5, <2>7 DEF Knows, KnowsFlow
    <3>2. PICK n \in Nat : n = Cardinality(RowsOf(s.flow))
      BY NumberedFlows
    <3>3. /\ Cardinality(RowsOf(s.flow)') = n + 1
          /\ Priorities(RowsOf(s.flow))' = Priorities(RowsOf(s.flow)) \cup {n}
      <4>1. PICK row \in ExecRow : row = s.row
        BY <1>3
      <4>2. /\ Cardinality(RowsOf(row.parent)') = Cardinality(RowsOf(row.parent)) + 1
            /\ Priorities(RowsOf(row.parent))' = Priorities(RowsOf(row.parent)) \cup {row.priority}
        BY <2>4, <4>1, RowMadeFacts
      <4> QED
        BY <1>3, <3>1, <3>2, <4>1, <4>2 DEF Priorities, RowsOf
    <3>4. Priorities(RowsOf(s.flow)) = 0..(n - 1)
      BY <3>1, <3>2 DEF DenseFlow
    <3>5. 0..(n - 1) \cup {n} = 0..((n + 1) - 1)
      OBVIOUS
    <3> QED
      BY <3>3, <3>4, <3>5 DEF DenseFlow
  <2>8. \A f \in flowRows \ mixed' : f \in Numbers(s) \ Numbers(r) => DenseFlow(f)'
    BY <1>4, <2>4, <2>7 DEF DenseFlow, Priorities, RowsOf
  <2>9. FlowSound(q, r)
    BY <1>1, <1>3, <1>4, <1>5, <2>3, <2>4, <2>5, <2>6, <2>8, TablesTyped, RowMadeSound
  <2> QED
    BY <2>9
<1>6. CASE s.flow \notin flowRows
  BY <1>1, <1>6, FailSound DEF PlaceExecution
<1> QED
  BY <1>5, <1>6

\* A copied row lands in the copy of the frames that are left.
LEMMA PlaceCopySound ==
  ASSUME FlowsInv, NEW q \in FlowRequests, NEW s \in FlowRequest, s = flowReq[q], s.step = "rows",
         NEW fr \in Seq(CopyFrame), fr # <<>>,
         NEW r \in FlowRequest, r = [s EXCEPT !.step = "rows", !.frames = fr], FlowFits(r),
         NEW p \in Held(s), NEW sub \in {Nil} \cup (Copies(s) \ Copies(r)),
         Held(r) \subseteq Held(s), Copies(r) \subseteq Copies(s),
         \A f \in flowRows \ mixed : f \in Copies(s) \ Copies(r) => DenseFlow(f),
         fr[1].to \in flowRows \ mixed =>
           Priorities(RowsOf(fr[1].to)) \cup TodoPriorities(fr[1]) \cup {p[2].priority}
             = 0..(Cardinality(RowsOf(fr[1].to)) + Cardinality(Todo(fr[1]))),
         \A i \in DOMAIN fr \ {1} : fr[i].to \in flowRows \ mixed => KnowsFrame(fr[i]),
         PlaceCopy(q, fr, p, sub), UNCHANGED <<flowRows, builtIn, configRows>>
  PROVE  \E t : FlowSound(q, t)
<1> USE DEF FlowsInv
<1>1. PICK t : t = fr[1].to
  OBVIOUS
<1>2. CASE t \notin flowRows
  BY <1>1, <1>2, FailSound DEF PlaceCopy
<1>3. ASSUME t \in flowRows PROVE FlowSound(q, r)
  <2>1. /\ FlowFits(s) /\ FlowShaped(s) /\ FlowDrawn(s) /\ HeldConfigs(s)
    BY RequestStands
  <2>2. /\ r.step = "rows" /\ r.frames = fr /\ r.flow = s.flow /\ r.exec = s.exec /\ r.peer = s.peer
        /\ r.sub = s.sub /\ r.late = s.late
    BY DEF FlowRequest
  <2>3. s.flow = Nil /\ s.exec = Nil /\ s.peer = Nil /\ s.sub = Nil
    BY <2>1 DEF FlowShaped, AtRest, Copying, Editing, Swapping
  <2>4. Numbers(r) = Copies(r) /\ Pending(r) = Copies(r) /\ Numbers(s) = Copies(s) /\ Pending(s) = Copies(s)
    <3>1. Nil \notin Copies(r) /\ Nil \notin Copies(s)
      BY RequestTypes, TablesTyped
    <3> QED
      BY <2>2, <2>3, <3>1 DEF Numbers, Pending
  <2>5. 1 \in DOMAIN fr /\ fr[1] \in CopyFrame /\ t \in Copies(r) /\ t \in FlowIds
    <3>1. 1 \in DOMAIN fr /\ fr[1] \in CopyFrame
      OBVIOUS
    <3> QED
      BY <1>1, <2>2, <3>1, FrameFacts DEF Copies
  <2>6. p \in ExecIds \X ExecRow
    <3>1. PICK i \in DOMAIN s.frames : p \in Todo(s.frames[i])
      BY DEF Held, Editing, Swapping
    <3>2. s.frames[i] \in CopyFrame
      BY RequestTypes
    <3> QED
      BY <3>1, <3>2, FrameFacts
  <2>7. sub \in FlowIds \cup {Nil}
    BY RequestTypes
  <2>8. PICK row : row = [p[2] EXCEPT !.parent = t, !.sub = sub]
    OBVIOUS
  <2>9. /\ row \in ExecRow /\ row.parent = t /\ row.sub = sub /\ row.config = p[2].config
        /\ row.priority = p[2].priority
    BY <2>5, <2>6, <2>7, <2>8 DEF ExecRow
  <2>10. PICK e \in ExecIds \ spent :
           /\ execRow' = [execRow EXCEPT ![e] = row] /\ spent' = spent \cup {e}
           /\ stale' = IF s.late \/ p[1] \in stale THEN stale \cup {e} ELSE stale
           /\ UNCHANGED mixed
    BY <1>1, <1>3, <2>8 DEF PlaceCopy, CreateExecution
  <2>11. flowReq' = [flowReq EXCEPT ![q] = r]
    <3>1. flowReq' = [flowReq EXCEPT ![q].step = "rows", ![q].frames = fr]
      BY <1>1, <1>3 DEF PlaceCopy
    <3> QED
      BY <3>1 DEF FlowsTypeOK
  <2>12. row.config \in configRows \cup {Nil} \/ e \in stale'
    BY <2>1, <2>9, <2>10 DEF HeldConfigs
  <2>13. FlowDrawn(r) /\ HeldConfigs(r)
    BY <2>1, <2>2, <2>4 DEF FlowDrawn, HeldConfigs
  <2>14. /\ RowsOf(t)' = RowsOf(t) \cup {e}
         /\ Cardinality(RowsOf(t)') = Cardinality(RowsOf(t)) + 1
         /\ Priorities(RowsOf(t))' = Priorities(RowsOf(t)) \cup {row.priority}
         /\ \A f : f # t => SameRows(f)
    <3>1. /\ RowsOf(row.parent)' = RowsOf(row.parent) \cup {e}
          /\ Cardinality(RowsOf(row.parent)') = Cardinality(RowsOf(row.parent)) + 1
          /\ Priorities(RowsOf(row.parent))' = Priorities(RowsOf(row.parent)) \cup {row.priority}
          /\ \A f : f # row.parent => SameRows(f)
      BY <2>9, <2>10, RowMadeFacts
    <3> QED
      BY <2>9, <3>1 DEF RowsOf, Priorities
  <2>15. ASSUME NEW i \in DOMAIN fr, fr[i].to \in flowRows \ mixed PROVE KnowsFrame(fr[i])'
    <3>1. CASE i = 1
      <4>1. PICK x \in CopyFrame : x = fr[1]
        BY <2>5
      <4>2. IsFiniteSet(Todo(x))
        <5>1. FrameFits(r, 1)
          BY <2>2, <2>5 DEF FlowFits, FramesFit
        <5>2. IsFiniteSet(x.todo) /\ x.at = Nil
          BY <2>2, <4>1, <5>1 DEF FrameFits
        <5> QED
          BY <5>2, FrameFacts
      <4>3. PICK n \in Nat, m \in Nat : n = Cardinality(RowsOf(t)) /\ m = Cardinality(Todo(x))
        BY <4>2, NumberedFlows, FS_CardinalityType
      <4>4. Priorities(RowsOf(t)) \cup TodoPriorities(x) \cup {p[2].priority} = 0..(n + m)
        BY <1>1, <2>15, <3>1, <4>1, <4>3
      <4>5. Priorities(RowsOf(t))' \cup TodoPriorities(x) = 0..(n + m)
        BY <2>9, <2>14, <4>4
      <4>6. Cardinality(RowsOf(t)') + Cardinality(Todo(x)) - 1 = n + m
        BY <2>14, <4>3
      <4>7. Priorities(RowsOf(x.to))' = Priorities(RowsOf(t))' /\ RowsOf(x.to)' = RowsOf(t)'
        BY <1>1, <4>1 DEF Priorities, RowsOf
      <4>8. KnowsFrame(x)'
        <5>1. Priorities(RowsOf(x.to))' \cup TodoPriorities(x) = 0..(Cardinality(RowsOf(x.to)') + Cardinality(Todo(x)) - 1)
          BY <4>5, <4>6, <4>7
        <5> QED
          BY <5>1 DEF KnowsFrame
      <4> QED
        BY <3>1, <4>1, <4>8 DEF KnowsFrame, Priorities, RowsOf, TodoPriorities, Todo
    <3>2. CASE i # 1
      <4>1. KnowsFrame(fr[i])
        BY <2>15, <3>2
      <4>2. fr[i].to # t
        BY <1>1, <2>2, <2>5, <3>2 DEF FlowFits, FramesFit, FrameFits
      <4>3. SameRows(fr[i].to)
        BY <2>14, <4>2
      <4>4. RowsOf(fr[i].to)' = RowsOf(fr[i].to) /\ Priorities(RowsOf(fr[i].to))' = Priorities(RowsOf(fr[i].to))
        BY <4>3, SameDense DEF SameRows
      <4> QED
        BY <4>1, <4>4 DEF KnowsFrame
    <3> QED
      BY <3>1, <3>2
  <2>16. Knows(r)'
    <3>1. r.flow \notin flowRows'
      BY <2>2, <2>3, TablesTyped
    <3>2. flowRows' = flowRows /\ mixed' = mixed
      BY <2>10
    <3> QED
      BY <2>2, <2>15, <3>1, <3>2 DEF Knows
  <2>17. ASSUME NEW f \in flowRows \ mixed, f \in Copies(s) \ Copies(r) PROVE DenseFlow(f)'
    BY <2>5, <2>14, <2>17, SameDense
  <2>18. mixed' = mixed /\ mixed \subseteq FlowIds
    BY <2>10, TablesTyped
  <2>19. stale \subseteq stale' /\ stale' \subseteq stale \cup {e}
    BY <2>10
  <2>20. /\ row.sub \in {Nil} \cup (Pending(flowReq[q]) \ Pending(r)) /\ row.parent \in Numbers(flowReq[q])
         /\ Pending(r) \subseteq Pending(flowReq[q]) /\ Numbers(r) \subseteq Numbers(flowReq[q])
         /\ r.exec = Nil /\ r.peer = Nil /\ row.parent \in flowRows
    BY <1>3, <2>2, <2>3, <2>4, <2>5, <2>9
  <2>21. \A f \in flowRows \ mixed' : f \in Numbers(flowReq[q]) \ Numbers(r) => DenseFlow(f)'
    BY <2>4, <2>17, <2>18
  <2>22. execRow' = [execRow EXCEPT ![e] = row] /\ spent' = spent \cup {e}
    BY <2>10
  <2> QED
    BY <2>9, <2>11, <2>12, <2>13, <2>16, <2>18, <2>19, <2>20, <2>21, <2>22, RowMadeSound
<1> QED
  BY <1>2, <1>3

\* A frame without one of the rows it had to copy.
LEMMA RowTaken ==
  ASSUME FlowsInv, NEW a \in CopyFrame, NEW b \in CopyFrame, b.to = a.to, NEW p \in Todo(a),
         Todo(b) = Todo(a) \ {p}, IsFiniteSet(Todo(a)), KnowsFrame(a)
  PROVE  Priorities(RowsOf(b.to)) \cup TodoPriorities(b) \cup {p[2].priority}
           = 0..(Cardinality(RowsOf(b.to)) + Cardinality(Todo(b)))
<1>1. TodoPriorities(a) = TodoPriorities(b) \cup {p[2].priority}
  BY DEF TodoPriorities
<1>2. Cardinality(Todo(b)) = Cardinality(Todo(a)) - 1
  BY FS_RemoveElement
<1>3. PICK n \in Nat, m \in Nat : n = Cardinality(RowsOf(a.to)) /\ m = Cardinality(Todo(a))
  BY NumberedFlows, FS_CardinalityType
<1>4. Priorities(RowsOf(a.to)) \cup TodoPriorities(a) = 0..(n + m - 1)
  BY <1>3 DEF KnowsFrame
<1>5. Cardinality(RowsOf(b.to)) + Cardinality(Todo(b)) = n + m - 1
  BY <1>2, <1>3
<1>6. Priorities(RowsOf(b.to)) = Priorities(RowsOf(a.to))
  OBVIOUS
<1> QED
  BY <1>1, <1>4, <1>5, <1>6

\* A row without a sub-flow is copied.
LEMMA CopyLeafSound ==
  ASSUME FlowsInv, NEW q \in FlowRequests, flowReq[q].step = "rows", NEW p \in Top(q).todo,
         PlaceCopy(q, [flowReq[q].frames EXCEPT ![1].todo = @ \ {p}], p, Nil),
         UNCHANGED <<flowRows, builtIn, configRows>>
  PROVE  \E r : FlowSound(q, r)
<1> USE DEF FlowsInv
<1>1. PICK s \in FlowRequest : s = flowReq[q]
  BY RequestStands
<1>2. /\ FlowFits(s) /\ FlowShaped(s) /\ FramesFit(s) /\ FlowDrawn(s) /\ HeldConfigs(s) /\ Knows(s)
      /\ s.step = "rows"
  BY <1>1, RequestStands
<1>3. /\ s.frames \in Seq(CopyFrame) /\ s.frames # <<>> /\ 1 \in DOMAIN s.frames /\ s.frames[1] \in CopyFrame
  <2>1. s.frames \in Seq(CopyFrame) /\ s.frames # <<>>
    BY <1>2 DEF FramesFit, FlowRequest
  <2> QED
    BY <2>1
<1>4. PICK top \in CopyFrame : top = s.frames[1]
  BY <1>3
<1>5. /\ top.at = Nil /\ p \in top.todo /\ IsFiniteSet(top.todo)
  <2>1. top.at = Nil /\ IsFiniteSet(top.todo)
    BY <1>2, <1>3, <1>4 DEF FramesFit, FrameFits
  <2>2. p \in top.todo
    BY <1>1, <1>4 DEF Top
  <2> QED
    BY <2>1, <2>2
<1>6. PICK x : x = [top EXCEPT !.todo = @ \ {p}]
  OBVIOUS
<1>7. x \in CopyFrame /\ x.to = top.to /\ x.todo = top.todo \ {p} /\ x.at = Nil
  BY <1>5, <1>6 DEF CopyFrame
<1>8. Todo(top) = top.todo /\ Todo(x) = Todo(top) \ {p}
  BY <1>5, <1>7, FrameFacts
<1>9. PICK fr : fr = [s.frames EXCEPT ![1] = x]
  OBVIOUS
<1>10. /\ fr \in Seq(CopyFrame) /\ fr # <<>> /\ DOMAIN fr = DOMAIN s.frames /\ fr[1] = x
       /\ \A i \in DOMAIN s.frames \ {1} : fr[i] = s.frames[i]
  BY <1>3, <1>7, <1>9, TopFrame
<1>11. PICK r : r = [s EXCEPT !.step = "rows", !.frames = fr]
  OBVIOUS
<1>12. r \in FlowRequest /\ r.step = "rows" /\ r.frames = fr
  <2>1. "rows" \in FlowSteps
    BY DEF FlowSteps
  <2> QED
    BY <1>10, <1>11, <2>1 DEF FlowRequest
<1>13. \A i \in DOMAIN s.frames : fr[i].to = s.frames[i].to /\ Todo(fr[i]) \subseteq Todo(s.frames[i])
  BY <1>4, <1>7, <1>8, <1>10
<1>14. Copies(r) = Copies(s)
  BY <1>10, <1>12, <1>13 DEF Copies
<1>15. FlowFits(r)
  <2>1. FlowShaped(r)
    BY <1>2, <1>11 DEF FlowShaped, FlowRequest
  <2>2. IsFiniteSet(top.todo \ {p})
    BY <1>5, FS_RemoveElement
  <2>3. Nil \notin top.todo
    BY FrameFacts, AuthFlowsAssumption
  <2>4. ASSUME NEW i \in DOMAIN fr PROVE FrameFits(r, i)
    <3>1. FrameFits(s, i)
      BY <1>2, <1>10, <2>4 DEF FramesFit
    <3>2. \A j \in DOMAIN r.frames : j # i => r.frames[j].to # r.frames[i].to
      BY <1>10, <1>12, <1>13, <3>1 DEF FrameFits
    <3>3. CASE i = 1
      BY <1>7, <1>10, <1>12, <2>2, <2>3, <3>2, <3>3 DEF FrameFits
    <3>4. CASE i # 1
      BY <1>2, <1>10, <1>12, <3>1, <3>2, <3>4 DEF FrameFits
    <3> QED
      BY <3>3, <3>4
  <2> QED
    BY <1>10, <1>12, <2>1, <2>4 DEF FlowFits, FramesFit, Copying
<1>16. Held(r) \subseteq Held(s) /\ p \in Held(s)
  <2>1. Held(r) \subseteq Held(s)
    BY <1>10, <1>12, <1>13 DEF Held, Editing, Swapping
  <2>2. p \in Todo(s.frames[1])
    BY <1>4, <1>5, <1>8
  <2> QED
    BY <1>3, <2>1, <2>2 DEF Held
<1>17. fr[1].to \in flowRows \ mixed =>
         Priorities(RowsOf(fr[1].to)) \cup TodoPriorities(fr[1]) \cup {p[2].priority}
           = 0..(Cardinality(RowsOf(fr[1].to)) + Cardinality(Todo(fr[1])))
  <2> SUFFICES ASSUME top.to \in flowRows \ mixed
               PROVE  Priorities(RowsOf(x.to)) \cup TodoPriorities(x) \cup {p[2].priority}
                        = 0..(Cardinality(RowsOf(x.to)) + Cardinality(Todo(x)))
    BY <1>7, <1>10
  <2>1. KnowsFrame(top)
    BY <1>2, <1>3, <1>4 DEF Knows
  <2>2. p \in Todo(top) /\ IsFiniteSet(Todo(top))
    BY <1>5, <1>8
  <2> QED
    BY <1>7, <1>8, <2>1, <2>2, RowTaken
<1>18. \A i \in DOMAIN fr \ {1} : fr[i].to \in flowRows \ mixed => KnowsFrame(fr[i])
  BY <1>2, <1>10 DEF Knows
<1>19. fr = [s.frames EXCEPT ![1].todo = @ \ {p}]
  BY <1>3, <1>4, <1>6, <1>9
<1>20. PlaceCopy(q, fr, p, Nil)
  BY <1>1, <1>19
<1> QED
  BY <1>1, <1>2, <1>10, <1>11, <1>12, <1>14, <1>15, <1>16, <1>17, <1>18, <1>20, PlaceCopySound

LEMMA CopyRowSound ==
  ASSUME FlowsInv, NEW q \in FlowRequests, CopyRow(q)
  PROVE  \E r : FlowSound(q, r)
<1>1. PICK p \in Top(q).todo :
       LET left == [flowReq[q].frames EXCEPT ![1].todo = @ \ {p}] IN
       IF p[2].sub \in flowReq[q].index
       THEN /\ flowReq' = [flowReq EXCEPT ![q].step = "copy", ![q].sub = p[2].sub,
                                          ![q].frames = [left EXCEPT ![1].at = p]]
            /\ UNCHANGED <<execRow, spent, stale, mixed>>
       ELSE PlaceCopy(q, left, p, Nil)
  BY DEF CopyRow
<1>2. flowReq[q].step = "rows" /\ UNCHANGED <<flowRows, builtIn, configRows>>
  BY DEF CopyRow
<1>3. CASE p[2].sub \in flowReq[q].index
  BY <1>1, <1>2, <1>3, CopyDownSound
<1>4. CASE p[2].sub \notin flowReq[q].index
  BY <1>1, <1>2, <1>4, CopyLeafSound
<1> QED
  BY <1>3, <1>4

LEMMA PopFrame ==
  ASSUME NEW frames \in Seq(CopyFrame), Len(frames) # 1, frames # <<>>
  PROVE  LET fr == Tail(frames) IN
         /\ fr \in Seq(CopyFrame) /\ fr # <<>> /\ 1 \in DOMAIN fr /\ fr[1] = frames[2] /\ 2 \in DOMAIN frames
         /\ \A i \in DOMAIN fr : i + 1 \in DOMAIN frames \ {1} /\ fr[i] = frames[i + 1]
         /\ \A i \in DOMAIN frames \ {1} : i - 1 \in DOMAIN fr /\ fr[i - 1] = frames[i]
<1>1. Len(frames) \in Nat /\ Len(frames) # 0 /\ DOMAIN frames = 1..Len(frames)
  BY EmptySeq
<1>2. PICK n \in Nat : n = Len(frames)
  BY <1>1
<1>3. n = Len(frames) /\ n > 1 /\ DOMAIN frames = 1..n
  BY <1>1, <1>2
<1>4. PICK fr : fr = Tail(frames)
  OBVIOUS
<1>5. /\ fr \in Seq(CopyFrame) /\ Len(fr) = n - 1 /\ \A i \in 1..Len(fr) : fr[i] = frames[i + 1]
  BY <1>3, <1>4, HeadTailProperties
<1>6. DOMAIN fr = 1..(n - 1) /\ fr # <<>>
  BY <1>3, <1>5
<1>7. \A i \in DOMAIN fr : i + 1 \in DOMAIN frames \ {1} /\ fr[i] = frames[i + 1]
  BY <1>3, <1>5, <1>6
<1>8. ASSUME NEW i \in DOMAIN frames \ {1} PROVE i - 1 \in DOMAIN fr /\ fr[i - 1] = frames[i]
  <2>1. i - 1 \in DOMAIN fr /\ (i - 1) + 1 = i
    BY <1>3, <1>6, <1>8
  <2> QED
    BY <1>7, <2>1
<1>9. 1 \in DOMAIN fr /\ 2 \in DOMAIN frames
  BY <1>3, <1>6
<1>10. fr[1] = frames[2]
  BY <1>7, <1>9
<1> QED
  BY <1>4, <1>5, <1>6, <1>7, <1>8, <1>9, <1>10

\* A frame with nothing left to copy.
LEMMA CopyDone ==
  ASSUME FlowsInv, NEW top \in CopyFrame, top.todo = {}, top.at = Nil, KnowsFrame(top)
  PROVE  DenseFlow(top.to)
<1>1. Todo(top) = {}
  BY FrameFacts
<1>2. TodoPriorities(top) = {} /\ Cardinality(Todo(top)) = 0
  BY <1>1, FS_EmptySet DEF TodoPriorities
<1>3. PICK n \in Nat : n = Cardinality(RowsOf(top.to))
  BY NumberedFlows
<1> QED
  BY <1>2, <1>3 DEF KnowsFrame, DenseFlow

\* The copy of a sub-flow is complete: the row that stands for it is next.
LEMMA CopyUpSound ==
  ASSUME FlowsInv, NEW q \in FlowRequests, flowReq[q].step = "rows", Top(q).todo = {},
         Len(flowReq[q].frames) # 1,
         PlaceCopy(q, [Tail(flowReq[q].frames) EXCEPT ![1].at = Nil], Tail(flowReq[q].frames)[1].at, Top(q).to),
         UNCHANGED <<flowRows, builtIn, configRows>>
  PROVE  \E r : FlowSound(q, r)
<1> USE DEF FlowsInv
<1>1. PICK s \in FlowRequest : s = flowReq[q]
  BY RequestStands
<1>2. /\ FlowFits(s) /\ FlowShaped(s) /\ FramesFit(s) /\ FlowDrawn(s) /\ HeldConfigs(s) /\ Knows(s)
      /\ s.step = "rows"
  BY <1>1, RequestStands
<1>3. /\ s.frames \in Seq(CopyFrame) /\ s.frames # <<>> /\ 1 \in DOMAIN s.frames /\ s.frames[1] \in CopyFrame
  <2>1. s.frames \in Seq(CopyFrame) /\ s.frames # <<>>
    BY <1>2 DEF FramesFit, FlowRequest
  <2> QED
    BY <2>1
<1>4. PICK tl : tl = Tail(s.frames)
  OBVIOUS
<1>5. /\ tl \in Seq(CopyFrame) /\ tl # <<>> /\ 1 \in DOMAIN tl /\ tl[1] = s.frames[2] /\ 2 \in DOMAIN s.frames
      /\ \A i \in DOMAIN tl : i + 1 \in DOMAIN s.frames \ {1} /\ tl[i] = s.frames[i + 1]
      /\ \A i \in DOMAIN s.frames \ {1} : i - 1 \in DOMAIN tl /\ tl[i - 1] = s.frames[i]
  BY <1>1, <1>3, <1>4, PopFrame
<1>6. PICK top, second \in CopyFrame, p \in {s.frames[2].at} :
        top = s.frames[1] /\ second = s.frames[2] /\ p = second.at
  <2>1. s.frames[2] \in CopyFrame
    BY <1>3, <1>5
  <2> QED
    BY <1>3, <2>1
<1>7. /\ top.at = Nil /\ top.todo = {} /\ top.to # second.to
      /\ p # Nil /\ IsFiniteSet(second.todo) /\ p \notin second.todo
  <2>1. FrameFits(s, 1) /\ FrameFits(s, 2)
    BY <1>2, <1>3, <1>5 DEF FramesFit
  <2>2. top.todo = {}
    BY <1>1, <1>6 DEF Top
  <2>3. top.at = Nil
    BY <1>2, <1>6, <2>1 DEF FrameFits
  <2>4. top.to # second.to
    BY <1>5, <1>6, <2>1 DEF FrameFits
  <2>5. p # Nil /\ IsFiniteSet(second.todo) /\ p \notin second.todo
    BY <1>6, <2>1 DEF FrameFits
  <2> QED
    BY <2>2, <2>3, <2>4, <2>5
<1>8. PICK x : x = [second EXCEPT !.at = Nil]
  OBVIOUS
<1>9. x \in CopyFrame /\ x.to = second.to /\ x.todo = second.todo /\ x.at = Nil
  BY <1>8 DEF CopyFrame
<1>10. /\ Todo(second) = second.todo \cup {p} /\ Todo(x) = Todo(second) \ {p} /\ p \in Todo(second)
       /\ IsFiniteSet(Todo(second)) /\ Todo(x) = second.todo
  <2>1. Todo(second) = second.todo \cup {p} /\ Todo(x) = second.todo
    BY <1>6, <1>7, <1>9, FrameFacts
  <2>2. IsFiniteSet(second.todo \cup {p})
    BY <1>7, FS_AddElement
  <2> QED
    BY <1>7, <2>1, <2>2
<1>11. PICK fr : fr = [tl EXCEPT ![1] = x]
  OBVIOUS
<1>12. /\ fr \in Seq(CopyFrame) /\ fr # <<>> /\ DOMAIN fr = DOMAIN tl /\ fr[1] = x
       /\ \A i \in DOMAIN tl \ {1} : fr[i] = tl[i]
  BY <1>5, <1>9, <1>11, TopFrame
<1>13. PICK r : r = [s EXCEPT !.step = "rows", !.frames = fr]
  OBVIOUS
<1>14. r \in FlowRequest /\ r.step = "rows" /\ r.frames = fr
  <2>1. "rows" \in FlowSteps
    BY DEF FlowSteps
  <2> QED
    BY <1>12, <1>13, <2>1 DEF FlowRequest
<1>15. \A i \in DOMAIN fr : /\ i + 1 \in DOMAIN s.frames \ {1} /\ fr[i].to = s.frames[i + 1].to
                            /\ Todo(fr[i]) \subseteq Todo(s.frames[i + 1])
  <2> SUFFICES ASSUME NEW i \in DOMAIN fr
               PROVE  /\ i + 1 \in DOMAIN s.frames \ {1} /\ fr[i].to = s.frames[i + 1].to
                      /\ Todo(fr[i]) \subseteq Todo(s.frames[i + 1])
    OBVIOUS
  <2>1. CASE i = 1
    BY <1>5, <1>6, <1>9, <1>10, <1>12, <2>1
  <2>2. CASE i # 1
    BY <1>5, <1>12, <2>2
  <2> QED
    BY <2>1, <2>2
<1>16. \A i \in DOMAIN s.frames : \A j \in DOMAIN s.frames : j # i => s.frames[j].to # s.frames[i].to
  BY <1>2 DEF FramesFit, FrameFits
<1>17. Copies(r) \subseteq Copies(s) /\ Copies(s) \subseteq Copies(r) \cup {top.to} /\ top.to \in Copies(s) \ Copies(r)
  <2>1. Copies(r) \subseteq Copies(s)
    BY <1>14, <1>15 DEF Copies
  <2>2. ASSUME NEW i \in DOMAIN s.frames \ {1} PROVE s.frames[i].to \in Copies(r)
    <3>1. i - 1 \in DOMAIN fr /\ fr[i - 1].to = s.frames[(i - 1) + 1].to
      BY <1>5, <1>12, <1>15, <2>2
    <3>2. (i - 1) + 1 = i
      BY <1>3, <2>2
    <3> QED
      BY <1>14, <3>1, <3>2 DEF Copies
  <2>3. top.to \in Copies(s)
    BY <1>3, <1>6 DEF Copies
  <2>4. top.to \notin Copies(r)
    BY <1>3, <1>6, <1>14, <1>15, <1>16 DEF Copies
  <2> QED
    BY <1>6, <2>1, <2>2, <2>3, <2>4 DEF Copies
<1>18. FlowFits(r)
  <2>1. FlowShaped(r)
    BY <1>2, <1>13 DEF FlowShaped, FlowRequest
  <2>2. Nil \notin second.todo
    BY FrameFacts, AuthFlowsAssumption
  <2>3. ASSUME NEW i \in DOMAIN fr PROVE FrameFits(r, i)
    <3>1. FrameFits(s, i + 1) /\ i + 1 # 1
      BY <1>2, <1>15, <2>3 DEF FramesFit
    <3>2. \A j \in DOMAIN fr : j # i => fr[j].to # fr[i].to
      <4> SUFFICES ASSUME NEW j \in DOMAIN fr, j # i PROVE fr[j].to # fr[i].to
        OBVIOUS
      <4>1. j + 1 # i + 1
        BY <1>12
      <4> QED
        BY <1>15, <1>16, <4>1
    <3>3. CASE i = 1
      BY <1>7, <1>9, <1>12, <1>14, <2>2, <3>2, <3>3 DEF FrameFits
    <3>4. CASE i # 1
      <4>1. fr[i] = s.frames[i + 1]
        BY <1>5, <1>12, <2>3, <3>4
      <4> QED
        BY <1>2, <1>14, <3>1, <3>2, <3>4, <4>1 DEF FrameFits
    <3> QED
      BY <3>3, <3>4
  <2> QED
    BY <1>12, <1>14, <2>1, <2>3 DEF FlowFits, FramesFit, Copying
<1>19. Held(r) \subseteq Held(s) /\ p \in Held(s)
  <2>1. Held(r) \subseteq Held(s)
    BY <1>14, <1>15 DEF Held, Editing, Swapping
  <2>2. p \in Todo(s.frames[2])
    BY <1>6, <1>10
  <2> QED
    BY <1>5, <2>1, <2>2 DEF Held
<1>20. fr[1].to \in flowRows \ mixed =>
         Priorities(RowsOf(fr[1].to)) \cup TodoPriorities(fr[1]) \cup {p[2].priority}
           = 0..(Cardinality(RowsOf(fr[1].to)) + Cardinality(Todo(fr[1])))
  <2> SUFFICES ASSUME second.to \in flowRows \ mixed
               PROVE  Priorities(RowsOf(x.to)) \cup TodoPriorities(x) \cup {p[2].priority}
                        = 0..(Cardinality(RowsOf(x.to)) + Cardinality(Todo(x)))
    BY <1>9, <1>12
  <2>1. KnowsFrame(second)
    BY <1>2, <1>5, <1>6 DEF Knows
  <2> QED
    BY <1>9, <1>10, <2>1, RowTaken
<1>21. \A i \in DOMAIN fr \ {1} : fr[i].to \in flowRows \ mixed => KnowsFrame(fr[i])
  BY <1>2, <1>5, <1>12 DEF Knows
<1>22. \A f \in flowRows \ mixed : f \in Copies(s) \ Copies(r) => DenseFlow(f)
  <2> SUFFICES ASSUME top.to \in flowRows \ mixed PROVE DenseFlow(top.to)
    BY <1>17
  <2>1. KnowsFrame(top)
    BY <1>2, <1>3, <1>6 DEF Knows
  <2> QED
    BY <1>7, <2>1, CopyDone
<1>23. PlaceCopy(q, fr, p, top.to)
  <2>1. fr = [tl EXCEPT ![1].at = Nil]
    BY <1>5, <1>6, <1>8, <1>11
  <2> QED
    BY <1>1, <1>4, <1>5, <1>6, <2>1 DEF Top
<1> QED
  BY <1>1, <1>2, <1>12, <1>13, <1>14, <1>17, <1>18, <1>19, <1>20, <1>21, <1>22, <1>23, PlaceCopySound

LEMMA CopyReturnsSound ==
  ASSUME FlowsInv, NEW q \in FlowRequests, CopyReturns(q)
  PROVE  \E r : FlowSound(q, r)
<1>1. flowReq[q].step = "rows" /\ Top(q).todo = {} /\ UNCHANGED <<flowRows, builtIn, configRows>>
  BY DEF CopyReturns
<1>2. CASE Len(flowReq[q].frames) = 1
  <2>1. PICK s \in FlowRequest : s = flowReq[q]
    BY RequestStands
  <2>2. FramesFit(s) /\ FlowShaped(s) /\ Knows(s) /\ s.step = "rows"
    BY <1>1, <2>1, RequestStands
  <2>3. DOMAIN s.frames = {1} /\ s.flow = Nil
    BY <1>2, <2>1, <2>2, RequestTypes DEF FlowShaped, AtRest, Copying
  <2>4. PICK top \in CopyFrame : top = s.frames[1]
    BY <2>3, RequestTypes
  <2>5. top.todo = {} /\ top.at = Nil
    BY <1>1, <2>1, <2>2, <2>3, <2>4 DEF Top, FramesFit, FrameFits
  <2>6. Numbers(s) \subseteq {top.to}
    BY <2>3, <2>4 DEF Numbers, Copies
  <2>7. top.to \in flowRows \ mixed => DenseFlow(top.to)
    BY <2>2, <2>3, <2>4, <2>5, CopyDone DEF Knows
  <2>8. FlowSound(q, OverFlowRequest)
    BY <1>2, <2>1, <2>6, <2>7, TablesTyped, LeaveSound DEF CopyReturns, FlowRequestEnds
  <2> QED
    BY <2>8
<1>3. CASE Len(flowReq[q].frames) # 1
  BY <1>1, <1>3, CopyUpSound DEF CopyReturns
<1> QED
  BY <1>2, <1>3
-----------------------------------------------------------------------------
(* Rows written back *)

LEMMA RowWrittenFacts ==
  ASSUME FlowsInv, NEW e \in Live, NEW row \in ExecRow, NEW f,
         f = execRow[e].parent, row.parent = f, row.sub = execRow[e].sub,
         execRow' = [execRow EXCEPT ![e] = row]
  PROVE  /\ Live' = Live /\ execRow'[e] = row
         /\ \A x \in Live \ {e} : execRow'[x] = execRow[x]
         /\ execRow' \in [ExecIds -> ExecRow \cup {Nil}]
         /\ \A g : RowsOf(g)' = RowsOf(g)
         /\ \A g : g # f => SameRows(g)
         /\ row.priority = execRow[e].priority => SameRows(f)
         /\ Priorities(RowsOf(f))' = Priorities(RowsOf(f) \ {e}) \cup {row.priority}
<1> USE DEF FlowsInv
<1>1. execRow'[e] = row /\ \A x \in ExecIds \ {e} : execRow'[x] = execRow[x]
  BY LiveFacts DEF FlowsTypeOK
<1>2. row # Nil
  BY AuthFlowsAssumption
<1>3. Live' = Live
  BY <1>1, <1>2 DEF Live
<1>4. \A x \in Live \ {e} : execRow'[x] = execRow[x]
  BY <1>1 DEF Live
<1>5. \A g : RowsOf(g)' = RowsOf(g)
  BY <1>1, <1>3, <1>4 DEF RowsOf
<1>6. \A g : RowsOf(g) \subseteq Live
  BY DEF RowsOf
<1>7. \A g : g # f => e \notin RowsOf(g)
  BY DEF RowsOf
<1>8. \A g : g # f => SameRows(g)
  BY <1>4, <1>5, <1>6, <1>7 DEF SameRows
<1>9. row.priority = execRow[e].priority => SameRows(f)
  BY <1>1, <1>4, <1>5, <1>6 DEF SameRows
<1>10. Priorities(RowsOf(f))' = Priorities(RowsOf(f) \ {e}) \cup {row.priority}
  <2>1. Priorities(RowsOf(f))' = {execRow'[x].priority : x \in RowsOf(f)}
    BY <1>5 DEF Priorities
  <2>2. \A x \in RowsOf(f) \ {e} : execRow'[x].priority = execRow[x].priority
    BY <1>4, <1>6
  <2>3. e \in RowsOf(f)
    BY DEF RowsOf
  <2> QED
    BY <1>1, <2>1, <2>2, <2>3 DEF Priorities
<1>11. execRow' \in [ExecIds -> ExecRow \cup {Nil}]
  BY DEF FlowsTypeOK
<1> QED
  BY <1>1, <1>3, <1>4, <1>5, <1>8, <1>9, <1>10, <1>11

LEMMA RowWrittenSound ==
  ASSUME FlowsInv, NEW q \in FlowRequests, NEW r \in FlowRequest, flowReq' = [flowReq EXCEPT ![q] = r],
         NEW e \in Live, NEW row \in ExecRow, NEW f, f = execRow[e].parent, row.parent = f,
         row.sub = execRow[e].sub, UpdateExecution(q, e, row),
         UNCHANGED <<flowRows, builtIn, configRows, spent, mixed>>,
         flowReq[q].late \/ row.config \in configRows \cup {Nil} \/ e \in stale,
         FlowFits(r), FlowDrawn(r), RowsAgree(r), HeldConfigs(r), Knows(r)',
         Pending(r) = {}, Numbers(r) \subseteq {f}, Numbers(flowReq[q]) = {f},
         f \in flowRows \ mixed => r.flow = f \/ DenseFlow(f)'
  PROVE  FlowSound(q, r)
<1> USE DEF FlowsInv
<1>1. flowReq' \in [FlowRequests -> FlowRequest] /\ flowReq'[q] = r
      /\ \A o \in FlowRequests \ {q} : flowReq'[o] = flowReq[o]
  BY DEF FlowsTypeOK
<1>2. /\ execRow' = [execRow EXCEPT ![e] = row] /\ stale \subseteq stale' /\ stale' \in SUBSET ExecIds
      /\ row.config \in configRows \cup {Nil} \/ e \in stale'
  BY LiveFacts DEF UpdateExecution, FlowsTypeOK
<1>3. /\ Live' = Live /\ execRow'[e] = row
      /\ \A x \in Live \ {e} : execRow'[x] = execRow[x]
      /\ execRow' \in [ExecIds -> ExecRow \cup {Nil}]
      /\ \A g : g # f => SameRows(g)
  BY <1>2, RowWrittenFacts
<1>4. \A x \in Live : execRow'[x].parent = execRow[x].parent /\ execRow'[x].sub = execRow[x].sub
  BY <1>3
<1>5. FlowsTypeOK'
  BY <1>1, <1>2, <1>3, <1>4 DEF FlowsTypeOK
<1>6. TablesDrawn' /\ NoDanglingConfig'
  BY <1>2, <1>3, <1>4 DEF TablesDrawn, NoDanglingConfig
<1>7. FlowDrawn(r)' /\ HeldConfigs(r)' /\ RowsAgree(r)'
  BY <1>2, <1>3, <1>4 DEF FlowDrawn, HeldConfigs, RowsAgree, Agrees
<1>8. TablesSound(q, r)
  BY <1>1, <1>2, <1>5, <1>6 DEF TablesSound, OtherStays
<1>9. SubsSound(q, r)
  BY <1>3, <1>4 DEF SubsSound
<1>10. NumbersSound(q, r)
  <2>1. \A g \in flowRows \ mixed : g \in Numbers(flowReq[q]) \ Numbers(r) => DenseFlow(g)'
    <3> SUFFICES ASSUME f \in flowRows \ mixed, f \notin Numbers(r) PROVE DenseFlow(f)'
      BY DEF DenseFlow, Priorities, RowsOf
    <3>1. r.flow # f
      BY TablesTyped DEF Numbers
    <3> QED
      BY <3>1
  <2> QED
    BY <1>3, <2>1 DEF NumbersSound
<1> QED
  BY <1>7, <1>8, <1>9, <1>10 DEF FlowSound, Standing

\* A row that a request has read and that is there still.
LEMMA EditFacts ==
  ASSUME FlowsInv, NEW q \in FlowRequests, NEW s \in FlowRequest, s = flowReq[q], s.step \in Editing
  PROVE  /\ s.flow # Nil /\ s.frames = <<>> /\ s.sub = Nil /\ Copies(s) = {}
         /\ Numbers(s) = {s.flow} /\ Pending(s) = {} /\ s.exec \in ExecIds /\ s.row \in ExecRow
         /\ s.row.parent = s.flow
         /\ s.exec \in Live => /\ execRow[s.exec].parent = s.flow /\ execRow[s.exec].sub = s.row.sub
                               /\ s.late \/ s.row.config \in configRows \cup {Nil} \/ s.exec \in stale
                               /\ s.flow \in flowRows
         /\ s.step \in Swapping =>
              /\ s.peer \in ExecIds /\ s.peerRow \in ExecRow /\ s.peerRow.parent = s.flow /\ s.peer # s.exec
              /\ s.peer \in Live => /\ execRow[s.peer].parent = s.flow /\ execRow[s.peer].sub = s.peerRow.sub
                                    /\ s.late \/ s.peerRow.config \in configRows \cup {Nil} \/ s.peer \in stale
                                    /\ s.flow \in flowRows
<1>1. FlowShaped(s) /\ FramesFit(s) /\ RowsAgree(s) /\ HeldConfigs(s)
  BY RequestStands
<1>2. /\ s.flow # Nil /\ s.frames = <<>> /\ s.sub = Nil /\ s.exec \in ExecIds /\ s.row \in ExecRow /\ s.row.parent = s.flow
      /\ s.step \in Swapping => s.peer \in ExecIds /\ s.peerRow \in ExecRow /\ s.peerRow.parent = s.flow /\ s.peer # s.exec
  BY <1>1 DEF FlowShaped, FramesFit, FlowRequest, AtRest, Copying, Editing, Swapping
<1>3. Copies(s) = {} /\ Numbers(s) = {s.flow} /\ Pending(s) = {}
  BY <1>2 DEF Copies, Numbers, Pending
<1>4. <<s.exec, s.row>> \in Held(s) /\ (s.step \in Swapping => <<s.peer, s.peerRow>> \in Held(s))
  BY DEF Held
<1>5. s.late \/ s.row.config \in configRows \cup {Nil} \/ s.exec \in stale
  BY <1>1, <1>4 DEF HeldConfigs
<1>6. s.step \in Swapping => s.late \/ s.peerRow.config \in configRows \cup {Nil} \/ s.peer \in stale
  BY <1>1, <1>4 DEF HeldConfigs
<1>7. s.exec \in Live => execRow[s.exec].parent = s.flow /\ execRow[s.exec].sub = s.row.sub /\ s.flow \in flowRows
  BY <1>1, <1>2, LiveFacts DEF RowsAgree, Agrees
<1>8. s.step \in Swapping /\ s.peer \in Live =>
        execRow[s.peer].parent = s.flow /\ execRow[s.peer].sub = s.peerRow.sub /\ s.flow \in flowRows
  BY <1>1, <1>2, LiveFacts DEF RowsAgree, Agrees
<1> QED
  BY <1>2, <1>3, <1>5, <1>6, <1>7, <1>8

\* The write is the request's last.
LEMMA LastWriteSound ==
  ASSUME FlowsInv, NEW q \in FlowRequests, FlowRequestEnds(q),
         NEW e \in Live, NEW row \in ExecRow, NEW f, f = execRow[e].parent, row.parent = f,
         row.sub = execRow[e].sub, Numbers(flowReq[q]) = {f}, UpdateExecution(q, e, row),
         UNCHANGED <<flowRows, builtIn, configRows, spent, mixed>>,
         flowReq[q].late \/ row.config \in configRows \cup {Nil} \/ e \in stale,
         f \in flowRows \ mixed => DenseFlow(f)'
  PROVE  \E r : FlowSound(q, r)
<1>1. PICK r : r = OverFlowRequest
  OBVIOUS
<1>2. /\ r \in FlowRequest /\ FlowFits(r) /\ Pending(r) = {} /\ Numbers(r) = {} /\ Held(r) = {}
      /\ r.exec = Nil /\ r.peer = Nil /\ r.flow = Nil /\ r.frames = <<>>
  BY <1>1, OverFlowFacts
<1>3. FlowDrawn(r) /\ RowsAgree(r) /\ HeldConfigs(r)
  BY <1>2, TablesTyped DEF FlowDrawn, RowsAgree, Agrees, HeldConfigs
<1>4. Knows(r)'
  <2>1. DOMAIN r.frames = {} /\ r.flow \notin flowRows'
    BY <1>2, TablesTyped
  <2> QED
    BY <2>1 DEF Knows
<1>5. flowReq' = [flowReq EXCEPT ![q] = r]
  BY <1>1 DEF FlowRequestEnds
<1>6. FlowSound(q, r)
  BY <1>2, <1>3, <1>4, <1>5, RowWrittenSound
<1> QED
  BY <1>6

LEMMA WriteExecutionSound ==
  ASSUME FlowsInv, NEW q \in FlowRequests, WriteExecution(q)
  PROVE  \E r : FlowSound(q, r)
<1>1. PICK s \in FlowRequest : s = flowReq[q]
  BY RequestStands
<1>2. /\ s.step = "update" /\ s.step \in Editing /\ Knows(s) /\ FlowRequestEnds(q)
      /\ UNCHANGED <<flowRows, builtIn, configRows, spent, mixed>>
  BY <1>1, RequestStands DEF WriteExecution, Editing
<1>3. CASE s.exec \in Live
  <2>1. PICK e \in Live, row \in ExecRow, f \in {s.flow} : e = s.exec /\ row = s.row /\ f = s.flow
    BY <1>1, <1>2, <1>3, EditFacts
  <2>2. /\ f = execRow[e].parent /\ row.parent = f /\ row.sub = execRow[e].sub /\ Numbers(flowReq[q]) = {f}
        /\ flowReq[q].late \/ row.config \in configRows \cup {Nil} \/ e \in stale
    BY <1>1, <1>2, <2>1, EditFacts
  <2>3. UpdateExecution(q, e, row)
    BY <1>1, <1>3, <2>1 DEF WriteExecution
  <2>4. ASSUME f \in flowRows \ mixed PROVE DenseFlow(f)'
    <3>1. DenseFlow(f) /\ execRow[e].priority = row.priority
      BY <1>2, <2>1, <2>4 DEF Knows, KnowsFlow, Current
    <3>2. SameRows(f)
      BY <2>2, <2>3, <3>1, RowWrittenFacts DEF UpdateExecution
    <3> QED
      BY <3>1, <3>2, SameDense
  <2> QED
    BY <1>2, <2>2, <2>3, <2>4, LastWriteSound
<1>4. CASE s.exec \notin Live
  BY <1>1, <1>2, <1>4, EndSound DEF WriteExecution, Knows, KnowsFlow, Copying
<1> QED
  BY <1>3, <1>4

LEMMA SwapFirstSound ==
  ASSUME FlowsInv, NEW q \in FlowRequests, SwapFirst(q)
  PROVE  \E r : FlowSound(q, r)
<1>1. PICK s \in FlowRequest : s = flowReq[q]
  BY RequestStands
<1>2. /\ s.step = "swap" /\ s.step \in Editing /\ s.step \in Swapping
      /\ Knows(s) /\ FlowShaped(s) /\ FramesFit(s) /\ FlowDrawn(s) /\ RowsAgree(s) /\ HeldConfigs(s)
      /\ UNCHANGED <<flowRows, builtIn, configRows, spent, mixed>>
  BY <1>1, RequestStands DEF SwapFirst, Editing, Swapping
<1>3. CASE s.exec \in Live
  <2>1. PICK e \in Live, f \in {s.flow}, row \in {[s.row EXCEPT !.priority = s.peerRow.priority]} : e = s.exec
    BY <1>3
  <2>2. /\ s.row \in ExecRow /\ s.peerRow \in ExecRow /\ s.row.parent = f /\ f = execRow[e].parent
        /\ s.row.sub = execRow[e].sub /\ Numbers(s) = {f} /\ s.frames = <<>> /\ f # Nil /\ s.sub = Nil
        /\ s.late \/ s.row.config \in configRows \cup {Nil} \/ e \in stale
        /\ s.peer # e /\ f \in flowRows
    BY <1>1, <1>2, <1>3, <2>1, EditFacts
  <2>3. /\ row \in ExecRow /\ row.parent = f /\ row.sub = execRow[e].sub /\ row.priority = s.peerRow.priority
        /\ row.config = s.row.config
    BY <2>1, <2>2 DEF ExecRow
  <2>4. UpdateExecution(q, e, row) /\ flowReq' = [flowReq EXCEPT ![q].step = "swapOther"]
    BY <1>1, <1>3, <2>1 DEF SwapFirst
  <2>5. execRow' = [execRow EXCEPT ![e] = row]
    BY <2>4 DEF UpdateExecution
  <2>6. PICK r : r = [s EXCEPT !.step = "swapOther"]
    OBVIOUS
  <2>7. /\ r \in FlowRequest /\ r.step = "swapOther" /\ r.flow = f /\ r.frames = <<>> /\ r.sub = Nil
        /\ r.peer = s.peer /\ r.peerRow = s.peerRow /\ r.exec = e /\ r.row = s.row /\ r.late = s.late
    <3>1. "swapOther" \in FlowSteps
      BY DEF FlowSteps
    <3> QED
      BY <2>1, <2>2, <2>6, <3>1 DEF FlowRequest
  <2>8. flowReq' = [flowReq EXCEPT ![q] = r]
    BY <1>1, <2>4, <2>6 DEF FlowsInv, FlowsTypeOK
  <2>9. Copies(r) = {} /\ DOMAIN r.frames = {} /\ DOMAIN s.frames = {}
    BY <2>2, <2>7 DEF Copies
  <2>10. Numbers(r) = {f} /\ Pending(r) = {} /\ Held(r) = Held(s)
    BY <1>2, <2>1, <2>2, <2>7, <2>9 DEF Numbers, Pending, Held, Editing, Swapping
  <2>11. FlowFits(r)
    BY <1>2, <2>1, <2>2, <2>7, <2>9 DEF FlowFits, FlowShaped, FramesFit, AtRest, Copying, Editing, Swapping
  <2>12. FlowDrawn(r) /\ RowsAgree(r) /\ HeldConfigs(r)
    BY <1>2, <2>1, <2>2, <2>7, <2>10 DEF FlowDrawn, RowsAgree, Agrees, HeldConfigs
  <2>13. ASSUME f \notin mixed PROVE KnowsFlow(r)'
    <3>1. /\ DenseFlow(f) /\ e \in RowsOf(f) /\ execRow[e].priority = s.row.priority
          /\ s.peer \in RowsOf(f) /\ execRow[s.peer].priority = s.peerRow.priority
      <4>1. KnowsFlow(s)
        BY <1>2, <2>1, <2>2, <2>13 DEF Knows
      <4>2. DenseFlow(s.flow) /\ Current(s.flow, s.exec, s.row) /\ Current(s.flow, s.peer, s.peerRow)
        BY <1>2, <4>1 DEF KnowsFlow
      <4> QED
        BY <2>1, <4>2 DEF Current
    <3>2. /\ execRow'[e] = row /\ \A x \in Live \ {e} : execRow'[x] = execRow[x]
          /\ RowsOf(f)' = RowsOf(f)
      <4>1. f = execRow[e].parent /\ row.parent = f /\ row.sub = execRow[e].sub /\ row \in ExecRow
        BY <2>2, <2>3
      <4> QED
        BY <2>5, <4>1, RowWrittenFacts
    <3>3. RowsOf(f) \subseteq Live
      BY DEF RowsOf
    <3>4. Current(f, s.peer, s.peerRow)' /\ Current(f, e, s.peerRow)'
      BY <2>2, <2>3, <3>1, <3>2, <3>3 DEF Current
    <3>5. Priorities(RowsOf(f) \ {e})' = Priorities(RowsOf(f) \ {e})
      BY <3>2, <3>3 DEF Priorities
    <3>6. Priorities(RowsOf(f) \ {e}) \cup {s.row.priority} = Priorities(RowsOf(f))
      BY <3>1 DEF Priorities
    <3>7. Priorities(RowsOf(f) \ {e})' \cup {s.row.priority} = 0..(Cardinality(RowsOf(f)') - 1)
      BY <3>1, <3>2, <3>5, <3>6 DEF DenseFlow
    <3> QED
      BY <2>7, <3>4, <3>7 DEF KnowsFlow, Current, Priorities, RowsOf
  <2>14. Knows(r)'
    BY <1>2, <2>7, <2>9, <2>13 DEF Knows
  <2>15. FlowSound(q, r)
    BY <1>1, <1>2, <2>2, <2>3, <2>4, <2>7, <2>8, <2>10, <2>11, <2>12, <2>14, RowWrittenSound
  <2> QED
    BY <2>15
<1>4. CASE s.exec \notin Live
  BY <1>1, <1>2, <1>4, EndSound DEF SwapFirst, Knows, KnowsFlow, Copying
<1> QED
  BY <1>3, <1>4

LEMMA SwapSecondSound ==
  ASSUME FlowsInv, NEW q \in FlowRequests, SwapSecond(q)
  PROVE  \E r : FlowSound(q, r)
<1>1. PICK s \in FlowRequest : s = flowReq[q]
  BY RequestStands
<1>2. /\ s.step = "swapOther" /\ s.step \in Editing /\ s.step \in Swapping
      /\ Knows(s) /\ FlowRequestEnds(q) /\ UNCHANGED <<flowRows, builtIn, configRows, spent, mixed>>
  BY <1>1, RequestStands DEF SwapSecond, Editing, Swapping
<1>3. CASE s.peer \in Live
  <2>1. PICK e \in Live, f \in {s.flow}, row \in {[s.peerRow EXCEPT !.priority = s.row.priority]} : e = s.peer
    BY <1>3
  <2>2. /\ s.row \in ExecRow /\ s.peerRow \in ExecRow /\ s.peerRow.parent = f /\ f = execRow[e].parent
        /\ s.peerRow.sub = execRow[e].sub /\ Numbers(s) = {f}
        /\ s.late \/ s.peerRow.config \in configRows \cup {Nil} \/ e \in stale
        /\ s.exec # e /\ f \in flowRows
    BY <1>1, <1>2, <1>3, <2>1, EditFacts
  <2>3. /\ row \in ExecRow /\ row.parent = f /\ row.sub = execRow[e].sub /\ row.priority = s.row.priority
        /\ row.config = s.peerRow.config
    BY <2>1, <2>2 DEF ExecRow
  <2>4. UpdateExecution(q, e, row)
    BY <1>1, <1>3, <2>1 DEF SwapSecond
  <2>5. execRow' = [execRow EXCEPT ![e] = row]
    BY <2>4 DEF UpdateExecution
  <2>6. ASSUME f \in flowRows \ mixed PROVE DenseFlow(f)'
    <3>1. /\ s.exec \in RowsOf(f) /\ execRow[s.exec].priority = s.peerRow.priority
          /\ e \in RowsOf(f) /\ execRow[e].priority = s.peerRow.priority
          /\ Priorities(RowsOf(f) \ {s.exec}) \cup {s.row.priority} = 0..(Cardinality(RowsOf(f)) - 1)
      <4>1. KnowsFlow(s)
        BY <1>2, <2>1, <2>6 DEF Knows
      <4>2. /\ Current(s.flow, s.exec, s.peerRow) /\ Current(s.flow, s.peer, s.peerRow)
            /\ Priorities(RowsOf(s.flow) \ {s.exec}) \cup {s.row.priority} = 0..(Cardinality(RowsOf(s.flow)) - 1)
        BY <1>2, <4>1 DEF KnowsFlow
      <4> QED
        BY <2>1, <4>2 DEF Current
    <3>2. Priorities(RowsOf(f) \ {s.exec}) = Priorities(RowsOf(f) \ {e})
      BY <2>2, <3>1 DEF Priorities
    <3>3. RowsOf(f)' = RowsOf(f) /\ Priorities(RowsOf(f))' = Priorities(RowsOf(f) \ {e}) \cup {s.row.priority}
      <4>1. f = execRow[e].parent /\ row.parent = f /\ row.sub = execRow[e].sub /\ row \in ExecRow
        BY <2>2, <2>3
      <4>2. RowsOf(f)' = RowsOf(f) /\ Priorities(RowsOf(f))' = Priorities(RowsOf(f) \ {e}) \cup {row.priority}
        BY <2>5, <4>1, RowWrittenFacts
      <4> QED
        BY <2>3, <4>2
    <3> QED
      BY <3>1, <3>2, <3>3 DEF DenseFlow
  <2> QED
    BY <1>1, <1>2, <2>2, <2>3, <2>4, <2>6, LastWriteSound
<1>4. CASE s.peer \notin Live
  <2>1. s.flow \notin flowRows \ mixed
    BY <1>2, <1>4 DEF Knows, KnowsFlow, Current, RowsOf
  <2> QED
    BY <1>1, <1>2, <1>4, <2>1, EndSound DEF SwapSecond, Copying
<1> QED
  BY <1>3, <1>4

LEMMA AttachConfigSound ==
  ASSUME FlowsInv, NEW q \in FlowRequests, AttachConfig(q)
  PROVE  \E r : FlowSound(q, r)
<1>1. PICK s \in FlowRequest : s = flowReq[q]
  BY RequestStands
<1>2. /\ s.step = "attach" /\ s.step \in Editing
      /\ Knows(s) /\ FlowShaped(s) /\ FramesFit(s) /\ FlowDrawn(s) /\ RowsAgree(s) /\ HeldConfigs(s)
      /\ UNCHANGED <<flowRows, builtIn, configRows, spent, mixed>>
  BY <1>1, RequestStands DEF AttachConfig, Editing
<1>3. CASE s.exec \in Live
  <2>1. PICK e \in Live, row \in ExecRow, f \in {s.flow} : e = s.exec /\ row = s.row /\ f = s.flow
    BY <1>1, <1>2, <1>3, EditFacts
  <2>2. /\ f = execRow[e].parent /\ row.parent = f /\ row.sub = execRow[e].sub /\ Numbers(s) = {f}
        /\ s.late \/ row.config \in configRows \cup {Nil} \/ e \in stale
        /\ s.frames = <<>> /\ f # Nil /\ s.sub = Nil /\ f \in flowRows
    BY <1>1, <1>2, <1>3, <2>1, EditFacts
  <2>3. UpdateExecution(q, e, row)
    BY <1>1, <1>3, <2>1 DEF AttachConfig
  <2>4. ASSUME f \notin mixed PROVE DenseFlow(f)'
    <3>1. DenseFlow(f) /\ execRow[e].priority = row.priority
      BY <1>2, <2>1, <2>2, <2>4 DEF Knows, KnowsFlow, Current
    <3>2. SameRows(f)
      BY <2>2, <2>3, <3>1, RowWrittenFacts DEF UpdateExecution
    <3> QED
      BY <3>1, <3>2, SameDense
  <2>5. CASE s.previous = Nil
    <3>1. FlowRequestEnds(q)
      BY <1>1, <1>3, <2>5 DEF AttachConfig
    <3> QED
      BY <1>1, <1>2, <2>2, <2>3, <2>4, <3>1, LastWriteSound
  <2>6. CASE s.previous # Nil
    <3>1. flowReq' = [flowReq EXCEPT ![q].step = "detach"]
      BY <1>1, <1>3, <2>6 DEF AttachConfig
    <3>2. PICK r : r = [s EXCEPT !.step = "detach"]
      OBVIOUS
    <3>3. /\ r \in FlowRequest /\ r.step = "detach" /\ r.flow = f /\ r.frames = <<>> /\ r.sub = Nil
          /\ r.peer = s.peer /\ r.peerRow = s.peerRow /\ r.exec = s.exec /\ r.row = s.row /\ r.late = s.late
      <4>1. "detach" \in FlowSteps
        BY DEF FlowSteps
      <4> QED
        BY <2>1, <2>2, <3>2, <4>1 DEF FlowRequest
    <3>4. flowReq' = [flowReq EXCEPT ![q] = r]
      BY <1>1, <3>1, <3>2 DEF FlowsInv, FlowsTypeOK
    <3>5. Copies(r) = {} /\ DOMAIN r.frames = {} /\ DOMAIN s.frames = {}
      BY <2>2, <3>3 DEF Copies
    <3>6. Numbers(r) = {f} /\ Pending(r) = {} /\ Held(r) = Held(s)
      BY <1>2, <2>1, <2>2, <3>3, <3>5 DEF Numbers, Pending, Held, Editing, Swapping
    <3>7. FlowFits(r)
      BY <1>2, <2>1, <2>2, <3>3, <3>5 DEF FlowFits, FlowShaped, FramesFit, AtRest, Copying, Editing, Swapping
    <3>8. FlowDrawn(r) /\ RowsAgree(r) /\ HeldConfigs(r)
      BY <1>2, <2>1, <2>2, <3>3, <3>6 DEF FlowDrawn, RowsAgree, Agrees, HeldConfigs
    <3>9. f \notin mixed => KnowsFlow(r)'
      BY <2>4, <3>3 DEF KnowsFlow, Swapping, DenseFlow, Priorities, RowsOf
    <3>10. Knows(r)'
      BY <1>2, <3>3, <3>5, <3>9 DEF Knows
    <3>11. FlowSound(q, r)
      BY <1>1, <1>2, <2>2, <2>3, <3>3, <3>4, <3>6, <3>7, <3>8, <3>10, RowWrittenSound
    <3> QED
      BY <3>11
  <2> QED
    BY <2>5, <2>6
<1>4. CASE s.exec \notin Live
  BY <1>1, <1>2, <1>4, EndSound DEF AttachConfig, Knows, KnowsFlow, Copying
<1> QED
  BY <1>3, <1>4
-----------------------------------------------------------------------------
(* Deletions *)

\* Rows go, all of flows that are gone too or marked.
LEMMA RowsGoneSound ==
  ASSUME FlowsInv, NEW q \in FlowRequests, ServedAtOnce(q),
         NEW gone \in SUBSET Live, execRow' = [e \in ExecIds |-> IF e \in gone THEN Nil ELSE execRow[e]],
         flowRows' \subseteq flowRows, mixed \subseteq mixed', mixed' \subseteq FlowIds,
         \A e \in gone : execRow[e].parent \notin flowRows' \ mixed',
         \A e \in Live \ gone : execRow[e].parent \in flowRows',
         UNCHANGED <<builtIn, configRows, spent, stale>>
  PROVE  \E r : FlowSound(q, r)
<1> USE DEF FlowsInv
<1>1. PICK r : r = OverFlowRequest
  OBVIOUS
<1>2. /\ r \in FlowRequest /\ FlowFits(r) /\ Pending(r) = {} /\ Numbers(r) = {} /\ Held(r) = {}
      /\ r.exec = Nil /\ r.peer = Nil /\ r.flow = Nil /\ r.frames = <<>> /\ DOMAIN r.frames = {}
  BY <1>1, OverFlowFacts
<1>3. /\ flowReq' \in [FlowRequests -> FlowRequest] /\ flowReq'[q] = r
      /\ \A o \in FlowRequests \ {q} : flowReq'[o] = flowReq[o]
  BY <1>1, <1>2 DEF ServedAtOnce, FlowRequestEnds, FlowsTypeOK
<1>4. Numbers(flowReq[q]) = {}
  BY RequestStands, RestFacts DEF ServedAtOnce, AtRest
<1>5. Live' = Live \ gone /\ \A e \in Live \ gone : execRow'[e] = execRow[e]
  BY DEF Live
<1>6. FlowsTypeOK' /\ TablesDrawn' /\ NoDanglingConfig'
  <2>1. execRow' \in [ExecIds -> ExecRow \cup {Nil}]
    BY DEF FlowsTypeOK
  <2> QED
    BY <1>3, <1>5, <2>1 DEF FlowsTypeOK, TablesDrawn, NoDanglingConfig
<1>7. Nil \notin Live' /\ Nil \notin flowRows'
  BY <1>5, TablesTyped
<1>8. Standing(r)'
  BY <1>2, <1>7 DEF Standing, FlowDrawn, RowsAgree, Agrees, HeldConfigs, Knows
<1>9. TablesSound(q, r)
  BY <1>3, <1>6 DEF TablesSound, OtherStays
<1>10. SubsSound(q, r)
  BY <1>2, <1>5 DEF SubsSound
<1>11. \A f \in flowRows' \ mixed' : SameRows(f)
  <2> SUFFICES ASSUME NEW f \in flowRows' \ mixed' PROVE SameRows(f)
    OBVIOUS
  <2>1. \A e \in RowsOf(f) : e \in Live \ gone
    BY DEF RowsOf
  <2>2. RowsOf(f)' = RowsOf(f)
    BY <1>5, <2>1 DEF RowsOf
  <2> QED
    BY <1>5, <2>1, <2>2 DEF SameRows
<1>12. NumbersSound(q, r)
  BY <1>2, <1>4, <1>11 DEF NumbersSound
<1>13. FlowSound(q, r)
  BY <1>2, <1>8, <1>9, <1>10, <1>12 DEF FlowSound
<1> QED
  BY <1>13

LEMMA DeleteFlowSound ==
  ASSUME FlowsInv, NEW q \in FlowRequests, DeleteFlow(q)
  PROVE  \E r : FlowSound(q, r)
<1>1. PICK f \in flowRows : /\ flowRows' = flowRows \ {f}
                            /\ execRow' = [e \in ExecIds |-> IF e \in RowsOf(f) THEN Nil ELSE execRow[e]]
  BY DEF DeleteFlow
<1>2. PICK gone : gone = RowsOf(f)
  OBVIOUS
<1>3. /\ gone \in SUBSET Live /\ \A e \in gone : execRow[e].parent = f
      /\ \A e \in Live \ gone : execRow[e].parent \in flowRows \ {f}
  BY <1>2, LiveFacts DEF RowsOf
<1>4. ServedAtOnce(q) /\ UNCHANGED <<builtIn, configRows, spent, stale, mixed>>
  BY DEF DeleteFlow
<1>5. execRow' = [e \in ExecIds |-> IF e \in gone THEN Nil ELSE execRow[e]]
  BY <1>1, <1>2
<1> QED
  BY <1>1, <1>3, <1>4, <1>5, TablesTyped, RowsGoneSound

LEMMA DeleteExecutionSound ==
  ASSUME FlowsInv, NEW q \in FlowRequests, DeleteExecution(q)
  PROVE  \E r : FlowSound(q, r)
<1>1. PICK d \in Live : execRow' = [execRow EXCEPT ![d] = Nil] /\ mixed' = mixed \cup {execRow[d].parent}
  BY DEF DeleteExecution
<1>2. PICK gone : gone = {d}
  OBVIOUS
<1>3. execRow' = [e \in ExecIds |-> IF e \in gone THEN Nil ELSE execRow[e]]
  BY <1>1, <1>2 DEF FlowsInv, FlowsTypeOK
<1>4. gone \in SUBSET Live /\ \A e \in gone : execRow[e].parent \in mixed'
  BY <1>1, <1>2
<1>5. mixed' \subseteq FlowIds /\ \A e \in Live : execRow[e].parent \in flowRows
  BY <1>1, TablesTyped, LiveFacts
<1>6. ServedAtOnce(q) /\ UNCHANGED <<flowRows, builtIn, configRows, spent, stale>>
  BY DEF DeleteExecution
<1>7. mixed \subseteq mixed'
  BY <1>1
<1> QED
  BY <1>3, <1>4, <1>5, <1>6, <1>7, RowsGoneSound

\* A configuration goes; the requests under way have met its deletion.
LEMMA DropConfigSound ==
  ASSUME FlowsInv, NEW q \in FlowRequests, NEW c, DropConfig(c),
         flowReq' = Late([flowReq EXCEPT ![q] = OverFlowRequest]),
         UNCHANGED <<flowRows, builtIn, spent, stale, mixed>>,
         \A f \in flowRows \ mixed : f \in Numbers(flowReq[q]) => DenseFlow(f)
  PROVE  \E r : FlowSound(q, r)
<1> USE DEF FlowsInv
<1>1. PICK r : r = OverFlowRequest
  OBVIOUS
<1>2. /\ r \in FlowRequest /\ FlowFits(r) /\ Pending(r) = {} /\ Numbers(r) = {} /\ Held(r) = {}
      /\ r.exec = Nil /\ r.peer = Nil /\ r.flow = Nil /\ r.frames = <<>> /\ DOMAIN r.frames = {}
      /\ r.step = "over"
  BY <1>1, OverFlowFacts
<1>3. PICK reqs \in [FlowRequests -> FlowRequest] : reqs = [flowReq EXCEPT ![q] = r]
  BY <1>2 DEF FlowsTypeOK
<1>4. reqs[q] = r /\ \A o \in FlowRequests \ {q} : reqs[o] = flowReq[o]
  BY <1>3 DEF FlowsTypeOK
<1>5. flowReq' = [o \in FlowRequests |-> IF reqs[o].step \in {"idle", "over"} THEN reqs[o]
                                         ELSE [reqs[o] EXCEPT !.late = TRUE]]
  BY <1>1, <1>3 DEF Late
<1>6. flowReq' \in [FlowRequests -> FlowRequest]
  <2>1. \A o \in FlowRequests : reqs[o] \in FlowRequest
    BY <1>3
  <2>2. \A s \in FlowRequest : [s EXCEPT !.late = TRUE] \in FlowRequest
    BY DEF FlowRequest
  <2> QED
    BY <1>5, <2>1, <2>2
<1>7. flowReq'[q] = r
  BY <1>2, <1>4, <1>5
<1>8. ASSUME NEW o \in FlowRequests \ {q}
      PROVE  OtherStays(o) /\ (flowReq[o].step \notin AtRest => flowReq'[o].late)
  <2>1. reqs[o] = flowReq[o] /\ flowReq[o] \in FlowRequest
    BY <1>3, <1>4 DEF FlowsTypeOK
  <2>2. flowReq[o].step \in AtRest => flowReq'[o] = flowReq[o]
    BY <1>5, <2>1 DEF AtRest
  <2>3. flowReq[o].step \notin AtRest => flowReq'[o] = [flowReq[o] EXCEPT !.late = TRUE]
    BY <1>5, <2>1 DEF AtRest
  <2>4. [flowReq[o] EXCEPT !.late = TRUE].late
    BY <2>1 DEF FlowRequest
  <2> QED
    BY <2>2, <2>3, <2>4 DEF OtherStays
<1>9. /\ configRows' = configRows \ {c}
      /\ execRow' = [e \in ExecIds |-> IF e \in Live /\ execRow[e].config = c
                                       THEN [execRow[e] EXCEPT !.config = Nil] ELSE execRow[e]]
  BY DEF DropConfig
<1>10. ASSUME NEW e \in Live
       PROVE  /\ execRow'[e] \in ExecRow /\ execRow'[e].parent = execRow[e].parent
              /\ execRow'[e].sub = execRow[e].sub /\ execRow'[e].priority = execRow[e].priority
              /\ execRow'[e].config = IF execRow[e].config = c THEN Nil ELSE execRow[e].config
  <2>1. e \in ExecIds /\ execRow[e] \in ExecRow
    BY LiveFacts
  <2>2. execRow'[e] = IF execRow[e].config = c THEN [execRow[e] EXCEPT !.config = Nil] ELSE execRow[e]
    BY <1>9, <2>1
  <2> QED
    BY <2>1, <2>2 DEF ExecRow
<1>11. Live' = Live
  <2>1. \A e \in ExecIds \ Live : execRow'[e] = execRow[e]
    BY <1>9
  <2>2. \A e \in Live : execRow'[e] # Nil
    BY <1>10, AuthFlowsAssumption
  <2> QED
    BY <2>1, <2>2 DEF Live
<1>12. FlowsTypeOK'
  <2>1. execRow' \in [ExecIds -> ExecRow \cup {Nil}]
    <3>1. \A e \in ExecIds \ Live : execRow'[e] = Nil
      BY <1>9 DEF Live
    <3>2. \A e \in ExecIds : execRow'[e] \in ExecRow \cup {Nil}
      BY <1>10, <3>1
    <3> QED
      BY <1>9, <3>2
  <2>2. \A e \in Live' : execRow'[e].parent \in flowRows'
    BY <1>10, <1>11, LiveFacts
  <2>3. configRows' \in SUBSET ConfigIds
    BY <1>9, TablesTyped
  <2> QED
    BY <1>6, <2>1, <2>2, <2>3 DEF FlowsTypeOK
<1>13. TablesDrawn' /\ NoDanglingConfig'
  <2>1. TablesDrawn'
    BY <1>10, <1>11 DEF TablesDrawn
  <2>2. ASSUME NEW e \in Live PROVE execRow'[e].config \in (configRows \ {c}) \cup {Nil} \/ e \in stale
    <3>1. execRow[e].config \in configRows \cup {Nil} \/ e \in stale
      BY LiveFacts
    <3>2. execRow'[e].config = IF execRow[e].config = c THEN Nil ELSE execRow[e].config
      BY <1>10
    <3> QED
      BY <3>1, <3>2
  <2> QED
    BY <1>9, <1>11, <2>1, <2>2 DEF NoDanglingConfig
<1>14. \A f : SameRows(f)
  <2>1. \A f : RowsOf(f)' = RowsOf(f) /\ RowsOf(f) \subseteq Live
    BY <1>10, <1>11 DEF RowsOf
  <2> QED
    BY <1>10, <2>1 DEF SameRows
<1>15. Nil \notin Live' /\ Nil \notin flowRows'
  BY <1>11, TablesTyped
<1>16. Standing(r)'
  BY <1>2, <1>15 DEF Standing, FlowDrawn, RowsAgree, Agrees, HeldConfigs, Knows
<1>17. TablesSound(q, r)
  BY <1>7, <1>8, <1>12, <1>13 DEF TablesSound
<1>18. SubsSound(q, r)
  BY <1>2, <1>10, <1>11 DEF SubsSound
<1>19. NumbersSound(q, r)
  <2>1. \A f : DenseFlow(f) => DenseFlow(f)'
    BY <1>14, SameDense
  <2> QED
    BY <1>2, <1>14, <2>1 DEF NumbersSound
<1>20. FlowSound(q, r)
  BY <1>2, <1>16, <1>17, <1>18, <1>19 DEF FlowSound
<1> QED
  BY <1>20

LEMMA DeleteConfigSound ==
  ASSUME FlowsInv, NEW q \in FlowRequests, DeleteConfig(q)
  PROVE  \E r : FlowSound(q, r)
<1>1. PICK c \in configRows : DropConfig(c)
  BY DEF DeleteConfig
<1>2. Numbers(flowReq[q]) = {}
  BY RequestStands, RestFacts DEF DeleteConfig, AtRest
<1>3. /\ flowReq' = Late([flowReq EXCEPT ![q] = OverFlowRequest])
      /\ UNCHANGED <<flowRows, builtIn, spent, stale, mixed>>
  BY DEF DeleteConfig
<1> QED
  BY <1>1, <1>2, <1>3, DropConfigSound

LEMMA DetachConfigSound ==
  ASSUME FlowsInv, NEW q \in FlowRequests, DetachConfig(q)
  PROVE  \E r : FlowSound(q, r)
<1>1. PICK s \in FlowRequest : s = flowReq[q]
  BY RequestStands
<1>2. s.step = "detach" /\ s.step \in Editing /\ Knows(s) /\ UNCHANGED <<flowRows, builtIn, spent, stale, mixed>>
  BY <1>1, RequestStands DEF DetachConfig, Editing
<1>3. s.flow \in flowRows \ mixed => DenseFlow(s.flow)
  BY <1>2 DEF Knows, KnowsFlow
<1>4. CASE s.previous \in configRows
  <2>1. Numbers(s) = {s.flow}
    BY <1>1, <1>2, EditFacts
  <2>2. DropConfig(s.previous) /\ flowReq' = Late([flowReq EXCEPT ![q] = OverFlowRequest])
    BY <1>1, <1>4 DEF DetachConfig
  <2> QED
    BY <1>1, <1>2, <1>3, <2>1, <2>2, DropConfigSound
<1>5. CASE s.previous \notin configRows
  BY <1>1, <1>2, <1>3, <1>5, EndSound DEF DetachConfig, Copying
<1> QED
  BY <1>4, <1>5
-----------------------------------------------------------------------------
(* The specification *)

LEMMA FlowsStart ==
  FlowsInit => FlowsInv
<1> SUFFICES ASSUME FlowsInit PROVE FlowsInv
  OBVIOUS
<1> USE DEF FlowsInit
<1>1. PICK r : r = IdleFlowRequest
  OBVIOUS
<1>2. /\ r \in FlowRequest /\ r.flow = Nil /\ r.exec = Nil /\ r.peer = Nil /\ r.sub = Nil /\ r.frames = <<>>
      /\ r.step = "idle" /\ DOMAIN r.frames = {}
  BY <1>1, IdleFlowFacts
<1>3. \A q \in FlowRequests : flowReq[q] = r
  BY <1>1
<1>4. FlowFits(r)
  BY <1>2 DEF FlowFits, FlowShaped, FramesFit, AtRest, Copying, Editing, Swapping
<1>5. Numbers(r) = {} /\ Pending(r) = {} /\ Held(r) = {}
  BY <1>2, <1>4, RestFacts DEF AtRest
<1>6. Live = {e \in ExecIds : SeedExecs[e] # Nil}
  BY DEF Live
<1>7. FlowsTypeOK
  <2>1. \A e \in Live : execRow[e].parent \in flowRows
    BY <1>6, AuthFlowsAssumption
  <2>2. flowReq \in [FlowRequests -> FlowRequest]
    BY <1>1, <1>2
  <2>3. /\ flowRows \in SUBSET FlowIds /\ builtIn \in SUBSET FlowIds /\ mixed \in SUBSET FlowIds
        /\ execRow \in [ExecIds -> ExecRow \cup {Nil}] /\ configRows \in SUBSET ConfigIds
    BY AuthFlowsAssumption
  <2>4. spent \in SUBSET (FlowIds \cup ExecIds \cup ConfigIds)
    BY <2>3
  <2> QED
    BY <2>1, <2>2, <2>3, <2>4 DEF FlowsTypeOK
<1>8. Nil \notin Live /\ Nil \notin flowRows
  BY <1>6, AuthFlowsAssumption
<1>9. Standing(r)
  BY <1>2, <1>4, <1>5, <1>8 DEF Standing, FlowDrawn, RowsAgree, Agrees, HeldConfigs, Knows
<1>10. \A e \in Live : /\ execRow[e].sub \in SeedFlows \cup {Nil}
                       /\ execRow[e].config \in SeedConfigs \cup {Nil}
  BY <1>6, AuthFlowsSeedAssumption
<1>11. TablesDrawn /\ NoDanglingConfig
  BY <1>6, <1>10 DEF TablesDrawn, NoDanglingConfig
<1>12. SubFlowsNotShared
  BY <1>6, AuthFlowsSeedAssumption DEF SubFlowsNotShared
<1>13. PrioritiesDense
  <2> SUFFICES ASSUME NEW f \in SeedFlows \ BuiltInFlows
               PROVE  {execRow[e].priority : e \in RowsOf(f)} = 0..(Cardinality(RowsOf(f)) - 1)
    BY DEF PrioritiesDense
  <2>1. RowsOf(f) = {e \in {x \in ExecIds : SeedExecs[x] # Nil} : SeedExecs[e].parent = f}
    BY <1>6 DEF RowsOf
  <2> QED
    BY <2>1, AuthFlowsSeedAssumption
<1>14. Apart
  BY <1>3, <1>5 DEF Apart
<1> QED
  BY <1>3, <1>7, <1>9, <1>11, <1>12, <1>13, <1>14 DEF FlowsInv

LEMMA FlowsStep ==
  ASSUME FlowsInv, [FlowsNext]_flowsVars
  PROVE  FlowsInv'
<1>1. ASSUME NEW q \in FlowRequests,
             \/ CreateFlow(q) \/ DeleteFlow(q) \/ CreateNumberedExecution(q) \/ DeleteExecution(q)
             \/ CreateConfig(q) \/ DeleteConfig(q)
             \/ PostExecution(q) \/ PostSubFlow(q) \/ CreateSubFlow(q) \/ NextPriority(q) \/ PlaceExecution(q)
             \/ PutExecution(q) \/ WriteExecution(q)
             \/ MovePriority(q) \/ FindNeighbour(q) \/ SwapFirst(q) \/ SwapSecond(q)
             \/ PostExecutionConfig(q) \/ AttachConfig(q) \/ DetachConfig(q)
             \/ PostCopy(q) \/ CopyFlow(q) \/ ListForCopy(q) \/ CopyRow(q) \/ CopyReturns(q)
             \/ CutFlowRequest(q)
      PROVE  \E r : FlowSound(q, r)
  <2>1. CASE CreateFlow(q) \/ DeleteFlow(q) \/ CreateNumberedExecution(q) \/ DeleteExecution(q)
    BY <2>1, CreateFlowSound, DeleteFlowSound, CreateNumberedExecutionSound, DeleteExecutionSound
  <2>2. CASE CreateConfig(q) \/ DeleteConfig(q)
    BY <2>2, CreateConfigSound, DeleteConfigSound
  <2>3. CASE PostExecution(q) \/ PostSubFlow(q) \/ CreateSubFlow(q) \/ NextPriority(q) \/ PlaceExecution(q)
    BY <2>3, PostExecutionSound, CreateSubFlowSound, NextPrioritySound, PlaceExecutionSound
  <2>4. CASE PutExecution(q) \/ WriteExecution(q)
    BY <2>4, PutExecutionSound, WriteExecutionSound
  <2>5. CASE MovePriority(q) \/ FindNeighbour(q) \/ SwapFirst(q) \/ SwapSecond(q)
    BY <2>5, MovePrioritySound, FindNeighbourSound, SwapFirstSound, SwapSecondSound
  <2>6. CASE PostExecutionConfig(q) \/ AttachConfig(q) \/ DetachConfig(q)
    BY <2>6, PostExecutionConfigSound, AttachConfigSound, DetachConfigSound
  <2>7. CASE PostCopy(q) \/ CopyFlow(q) \/ ListForCopy(q) \/ CopyRow(q) \/ CopyReturns(q)
    BY <2>7, PostCopySound, CopyFlowSound, ListForCopySound, CopyRowSound, CopyReturnsSound
  <2>8. CASE CutFlowRequest(q)
    BY <2>8, CutFlowRequestSound
  <2> QED
    BY <1>1, <2>1, <2>2, <2>3, <2>4, <2>5, <2>6, <2>7, <2>8
<1>2. CASE FlowsNext
  <2>1. PICK q \in FlowRequests : \E r : FlowSound(q, r)
    BY <1>1, <1>2 DEF FlowsNext
  <2> QED
    BY <2>1, FlowSoundStep
<1>3. CASE UNCHANGED flowsVars
  <2>1. /\ flowRows' = flowRows /\ builtIn' = builtIn /\ execRow' = execRow /\ configRows' = configRows
        /\ spent' = spent /\ flowReq' = flowReq /\ stale' = stale /\ mixed' = mixed
    BY <1>3 DEF flowsVars
  <2>2. Live' = Live
    BY <2>1 DEF Live
  <2>3. \A f : RowsOf(f)' = RowsOf(f)
    BY <2>1, <2>2 DEF RowsOf
  <2>4. FlowsTypeOK' /\ TablesDrawn' /\ NoDanglingConfig' /\ SubFlowsNotShared'
    BY <2>1, <2>2 DEF FlowsInv, FlowsTypeOK, TablesDrawn, NoDanglingConfig, SubFlowsNotShared
  <2>5. Apart'
    BY <2>1, <2>2 DEF FlowsInv, Apart
  <2>6. PrioritiesDense'
    BY <2>1, <2>3 DEF FlowsInv, PrioritiesDense, Quiet, Concerns
  <2>7. ASSUME NEW q \in FlowRequests PROVE Standing(flowReq[q])'
    <3>1. PICK s \in FlowRequest : s = flowReq[q]
      BY RequestStands
    <3>2. FlowFits(s) /\ FlowDrawn(s) /\ RowsAgree(s) /\ HeldConfigs(s) /\ Knows(s) /\ FlowShaped(s)
      BY <3>1, RequestStands
    <3>3. FlowDrawn(s)' /\ RowsAgree(s)' /\ HeldConfigs(s)'
      BY <2>1, <2>2, <3>2 DEF FlowDrawn, RowsAgree, Agrees, HeldConfigs
    <3>4. \A f : SameRows(f)
      BY <2>1, <2>3 DEF SameRows
    <3>5. Knows(s)'
      BY <2>1, <3>2, <3>4, TablesTyped, OtherKnows
    <3> QED
      BY <2>1, <3>1, <3>2, <3>3, <3>5 DEF Standing
  <2> QED
    BY <2>4, <2>5, <2>6, <2>7 DEF FlowsInv
<1> QED
  BY <1>2, <1>3

\* FlowsInv is an invariant: rows lie in flows that are there, requests hold ids that
\* were drawn and rows that have kept their place, and every unmarked flow is
\* numbered as the one request at work on it knows.
THEOREM FlowsInvariant == FlowsSpec => []FlowsInv
<1>1. FlowsInv /\ [FlowsNext]_flowsVars => FlowsInv'
  BY FlowsStep
<1> QED
  BY <1>1, FlowsStart, PTL DEF FlowsSpec

\* The tables of flows, executions and configurations keep their types, and every
\* execution lies in a flow that is there, whatever requests do at once.
THEOREM FlowsTypeCorrect == FlowsSpec => []FlowsTypeOK
<1>1. FlowsInv => FlowsTypeOK
  BY DEF FlowsInv
<1> QED
  BY <1>1, FlowsInvariant, PTL

\* deleteConfig with the updates and copies beside it: over any flows and any number of
\* requests, an execution points at a configuration that is there, unless a request
\* wrote back the row it had read before the configuration went.
THEOREM ConfigsResolve == FlowsSpec => []NoDanglingConfig
<1>1. FlowsInv => NoDanglingConfig
  BY DEF FlowsInv
<1> QED
  BY <1>1, FlowsInvariant, PTL

\* copyFlow is deep at any depth, and nothing else hands out a sub-flow that has a row:
\* no two executions stand for one sub-flow.
THEOREM SubFlowsApart == FlowsSpec => []SubFlowsNotShared
<1>1. FlowsInv => SubFlowsNotShared
  BY DEF FlowsInv
<1> QED
  BY <1>1, FlowsInvariant, PTL

\* nextPriority, movePriority and copyFlow: a flow of any length that only appends and
\* swaps have built, and every copy of it at rest, is numbered 0, 1, 2 and so on.
THEOREM NumberingDense == FlowsSpec => []PrioritiesDense
<1>1. FlowsInv => PrioritiesDense
  BY DEF FlowsInv
<1> QED
  BY <1>1, FlowsInvariant, PTL
=============================================================================
