----------------------------- MODULE AuthFlows -----------------------------
(***************************************************************************)
(* The administration of authentication flows: flows, the executions that  *)
(* are their rows, the sub-flows an execution may stand for and the        *)
(* configuration it may point at.                                          *)
(*                                                                         *)
(* Handlers read rows, compute and write whole rows back without a         *)
(* transaction; execution.parent_flow_id is a foreign key with a cascade,  *)
(* flow_id and config_id are plain columns.  Requests that are refused, and *)
(* columns no guard reads (alias, description, requirement), are left out. *)
(***************************************************************************)
EXTENDS Naturals, FiniteSets, Sequences

CONSTANTS
  FlowIds, ExecIds, ConfigIds,  \* ids; random, so none is drawn twice
  BuiltInFlows,                 \* the flows of the seed
  SeedFlows,                    \* the flows, executions and configurations
  SeedExecs,                    \* that are there to begin with
  SeedConfigs,
  CallerPriorities,             \* priorities a caller of POST /executions names
  FlowRequests,                 \* requests, each served once
  Nil                           \* absent value

FlowPriorities == 0..Cardinality(ExecIds) \cup CallerPriorities

ExecRow == [parent : FlowIds, sub : FlowIds \cup {Nil}, config : ConfigIds \cup {Nil},
            priority : FlowPriorities]

ASSUME AuthFlowsAssumption ==
  /\ Nil \notin FlowIds \cup ExecIds \cup ConfigIds \cup ExecRow \cup (ExecIds \X ExecRow)
  /\ FlowIds \cap ExecIds = {} /\ FlowIds \cap ConfigIds = {} /\ ExecIds \cap ConfigIds = {}
  /\ IsFiniteSet(ExecIds) /\ CallerPriorities \subseteq Nat
  /\ BuiltInFlows \subseteq SeedFlows /\ SeedFlows \subseteq FlowIds
  /\ SeedExecs \in [ExecIds -> ExecRow \cup {Nil}]
  /\ \A e \in ExecIds : SeedExecs[e] # Nil => SeedExecs[e].parent \in SeedFlows
  /\ SeedConfigs \subseteq ConfigIds

\* The seed's sub-flows and configurations are there, a sub-flow under one row;
\* a flow that is not built in was numbered by appending.
ASSUME AuthFlowsSeedAssumption ==
  LET rows == {e \in ExecIds : SeedExecs[e] # Nil} IN
  /\ \A e \in rows : /\ SeedExecs[e].sub \in SeedFlows \cup {Nil}
                      /\ SeedExecs[e].config \in SeedConfigs \cup {Nil}
  /\ \A e, o \in rows : e # o /\ SeedExecs[e].sub = SeedExecs[o].sub => SeedExecs[e].sub = Nil
  /\ \A f \in SeedFlows \ BuiltInFlows :
       LET own == {e \in rows : SeedExecs[e].parent = f} IN
       {SeedExecs[e].priority : e \in own} = 0..(Cardinality(own) - 1)

VARIABLES
  flowRows,    \* authentication_flow
  builtIn,     \* those with the built_in column set
  execRow,     \* authentication_execution
  configRows,  \* authentication_config
  spent,       \* ids drawn so far
  flowReq,     \* the requests under way
  stale,       \* executions written by a request that met the deletion of a configuration (history)
  mixed        \* flows whose numbering a caller, a deletion, an overlap or a cut disturbed (history)

flowsVars == <<flowRows, builtIn, execRow, configRows, spent, flowReq, stale, mixed>>

FlowSteps == {"idle", "count", "place", "update", "siblings", "swap", "swapOther",
              "attach", "detach", "subflow", "copy", "list", "rows", "over"}

\* `exec` and `row` are an execution as it was read, `peer` and `peerRow` its
\* neighbour; `frames` is the recursion of copyFlowTree, innermost first.
IdleFlowRequest == [step |-> "idle", flow |-> Nil, exec |-> Nil, row |-> Nil, peer |-> Nil,
                    peerRow |-> Nil, sub |-> Nil, previous |-> Nil, up |-> FALSE,
                    index |-> {}, frames |-> <<>>, late |-> FALSE]
OverFlowRequest == [IdleFlowRequest EXCEPT !.step = "over"]

\* A frame: the copied flow, the copy, the rows still to do and the row whose
\* sub-flow is being copied.
CopyFrame == [from : FlowIds, to : FlowIds, todo : SUBSET (ExecIds \X ExecRow),
              at : (ExecIds \X ExecRow) \cup {Nil}]

FlowRequest ==
  [step : FlowSteps, flow : FlowIds \cup {Nil}, exec : ExecIds \cup {Nil},
   row : ExecRow \cup {Nil}, peer : ExecIds \cup {Nil}, peerRow : ExecRow \cup {Nil},
   sub : FlowIds \cup {Nil}, previous : ConfigIds \cup {Nil}, up : BOOLEAN,
   index : SUBSET FlowIds, frames : Seq(CopyFrame), late : BOOLEAN]

Live == {e \in ExecIds : execRow[e] # Nil}

\* Every execution lies in a flow that is there: parent_flow_id cascades.
FlowsTypeOK ==
  /\ flowRows \in SUBSET FlowIds
  /\ builtIn \in SUBSET FlowIds
  /\ execRow \in [ExecIds -> ExecRow \cup {Nil}]
  /\ \A e \in Live : execRow[e].parent \in flowRows
  /\ configRows \in SUBSET ConfigIds
  /\ spent \in SUBSET (FlowIds \cup ExecIds \cup ConfigIds)
  /\ flowReq \in [FlowRequests -> FlowRequest]
  /\ stale \in SUBSET ExecIds
  /\ mixed \in SUBSET FlowIds

FlowsInit ==
  /\ flowRows = SeedFlows
  /\ builtIn = BuiltInFlows
  /\ execRow = SeedExecs
  /\ configRows = SeedConfigs
  /\ spent = SeedFlows \cup {e \in ExecIds : SeedExecs[e] # Nil} \cup SeedConfigs
  /\ flowReq = [q \in FlowRequests |-> IdleFlowRequest]
  /\ stale = {}
  /\ mixed = BuiltInFlows

RowsOf(f) == {e \in Live : execRow[e].parent = f}

-----------------------------------------------------------------------------
(* Requests and the history *)

\* The flows whose numbering a request reads or writes.
Concerns(q) ==
  ({flowReq[q].flow} \cup {flowReq[q].frames[i].to : i \in DOMAIN flowReq[q].frames}) \ {Nil}
Quiet(f) == \A q \in FlowRequests : f \notin Concerns(q)

\* A request on flow f arrives.
FlowRequestArrives(q, f, request) ==
  /\ flowReq[q].step = "idle"
  /\ flowReq' = [flowReq EXCEPT ![q] = request]
  /\ mixed' = IF Quiet(f) THEN mixed ELSE mixed \cup {f}

FlowRequestEnds(q) == flowReq' = [flowReq EXCEPT ![q] = OverFlowRequest]

\* One whose reads cannot be out of date by the time of its one write.
ServedAtOnce(q) == flowReq[q].step = "idle" /\ FlowRequestEnds(q)

\* It ends half way, with an error or cut off.
FlowRequestFails(q) ==
  /\ FlowRequestEnds(q)
  /\ mixed' = mixed \cup Concerns(q)

\* INSERT of an execution, whose parent must be there.
CreateExecution(q, e, row, tainted) ==
  /\ execRow' = [execRow EXCEPT ![e] = row]
  /\ spent' = spent \cup {e}
  /\ stale' = IF tainted THEN stale \cup {e} ELSE stale

\* UPDATE of the priority and the configuration of an execution.
UpdateExecution(q, e, row) ==
  /\ execRow' = [execRow EXCEPT ![e] = row]
  /\ stale' = IF flowReq[q].late THEN stale \cup {e} ELSE stale

-----------------------------------------------------------------------------
(* Flows and executions *)

\* createFlow: the caller says whether the flow is built in.
CreateFlow(q) ==
  /\ ServedAtOnce(q)
  /\ \E f \in FlowIds \ spent, b \in BOOLEAN :
       /\ flowRows' = flowRows \cup {f}
       /\ builtIn' = IF b THEN builtIn \cup {f} ELSE builtIn
       /\ spent' = spent \cup {f}
  /\ UNCHANGED <<execRow, configRows, stale, mixed>>

\* Mutant: the executions stay.
DeleteFlowOnly(q) ==
  /\ ServedAtOnce(q)
  /\ \E f \in flowRows \ builtIn : flowRows' = flowRows \ {f}
  /\ UNCHANGED <<builtIn, execRow, configRows, spent, stale, mixed>>

\* deleteFlow: the executions go by cascade; the rows that stand for the flow
\* and its own sub-flows stay.
DeleteFlow(q) ==
  /\ ServedAtOnce(q)
  /\ \E f \in flowRows \ builtIn :
       /\ flowRows' = flowRows \ {f}
       /\ execRow' = [e \in ExecIds |-> IF e \in RowsOf(f) THEN Nil ELSE execRow[e]]
  /\ UNCHANGED <<builtIn, configRows, spent, stale, mixed>>

\* deleteExecution; executionIsEditable refuses the rows of a built-in flow.
DeleteExecution(q) ==
  /\ ServedAtOnce(q)
  /\ \E e \in Live :
       /\ execRow[e].parent \notin builtIn
       /\ execRow' = [execRow EXCEPT ![e] = Nil]
       /\ mixed' = mixed \cup {execRow[e].parent}
  /\ UNCHANGED <<flowRows, builtIn, configRows, spent, stale>>

\* createExecution: the caller numbers the row.
CreateNumberedExecution(q) ==
  /\ ServedAtOnce(q)
  /\ \E e \in ExecIds \ spent, f \in flowRows \ builtIn, p \in CallerPriorities :
       /\ execRow' = [execRow EXCEPT ![e] = [parent |-> f, sub |-> Nil, config |-> Nil, priority |-> p]]
       /\ spent' = spent \cup {e}
       /\ mixed' = mixed \cup {f}
  /\ UNCHANGED <<flowRows, builtIn, configRows, stale>>

\* createFlowExecution has read the flows.
PostExecution(q) ==
  /\ \E f \in flowRows \ builtIn :
       FlowRequestArrives(q, f, [IdleFlowRequest EXCEPT !.step = "count", !.flow = f])
  /\ UNCHANGED <<flowRows, builtIn, execRow, configRows, spent, stale>>

\* createSubFlow has read the flows.
PostSubFlow(q) ==
  /\ \E f \in flowRows \ builtIn :
       FlowRequestArrives(q, f, [IdleFlowRequest EXCEPT !.step = "subflow", !.flow = f])
  /\ UNCHANGED <<flowRows, builtIn, execRow, configRows, spent, stale>>

CreateSubFlow(q) ==
  /\ flowReq[q].step = "subflow"
  /\ \E f \in FlowIds \ spent :
       /\ flowRows' = flowRows \cup {f}
       /\ spent' = spent \cup {f}
       /\ flowReq' = [flowReq EXCEPT ![q].step = "count", ![q].sub = f]
  /\ UNCHANGED <<builtIn, execRow, configRows, stale, mixed>>

\* nextPriority counts the rows.
NextPriority(q) ==
  LET f == flowReq[q].flow IN
  /\ flowReq[q].step = "count"
  /\ flowReq' = [flowReq EXCEPT ![q].step = "place",
                                ![q].row = [parent |-> f, sub |-> flowReq[q].sub, config |-> Nil,
                                            priority |-> Cardinality(RowsOf(f))]]
  /\ UNCHANGED <<flowRows, builtIn, execRow, configRows, spent, stale, mixed>>

PlaceExecution(q) ==
  /\ flowReq[q].step = "place"
  /\ IF flowReq[q].flow \in flowRows
     THEN \E e \in ExecIds \ spent :
            /\ CreateExecution(q, e, flowReq[q].row, FALSE)
            /\ FlowRequestEnds(q) /\ UNCHANGED mixed
     ELSE FlowRequestFails(q) /\ UNCHANGED <<execRow, spent, stale>>
  /\ UNCHANGED <<flowRows, builtIn, configRows>>

\* updateFlowExecution has read the row; it writes it back with a new requirement,
\* on a built-in flow too.
PutExecution(q) ==
  /\ \E e \in Live :
       FlowRequestArrives(q, execRow[e].parent,
         [IdleFlowRequest EXCEPT !.step = "update", !.flow = execRow[e].parent, !.exec = e,
                                 !.row = execRow[e]])
  /\ UNCHANGED <<flowRows, builtIn, execRow, configRows, spent, stale>>

WriteExecution(q) ==
  /\ flowReq[q].step = "update"
  /\ IF flowReq[q].exec \in Live
     THEN UpdateExecution(q, flowReq[q].exec, flowReq[q].row) ELSE UNCHANGED <<execRow, stale>>
  /\ FlowRequestEnds(q)
  /\ UNCHANGED <<flowRows, builtIn, configRows, spent, mixed>>

-----------------------------------------------------------------------------
(* movePriority *)

MovePriority(q) ==
  /\ \E e \in Live, up \in BOOLEAN :
       /\ execRow[e].parent \notin builtIn
       /\ FlowRequestArrives(q, execRow[e].parent,
            [IdleFlowRequest EXCEPT !.step = "siblings", !.flow = execRow[e].parent, !.exec = e,
                                    !.row = execRow[e], !.up = up])
  /\ UNCHANGED <<flowRows, builtIn, execRow, configRows, spent, stale>>

\* ORDER BY priority: e is followed by o, or ties with it, and none is between.
\* Two rows that tie follow their random ids, in either order.
Neighbours(e, o) ==
  /\ e # o /\ execRow[o].parent = execRow[e].parent
  /\ execRow[e].priority <= execRow[o].priority
  /\ \A x \in RowsOf(execRow[e].parent) \ {e, o} :
       execRow[x].priority <= execRow[e].priority \/ execRow[o].priority <= execRow[x].priority

\* The neighbour above or below; a row at the end, or gone, is left alone.
FindNeighbour(q) ==
  LET e == flowReq[q].exec
      candidates == IF e \notin Live THEN {}
                    ELSE {o \in Live : IF flowReq[q].up THEN Neighbours(o, e) ELSE Neighbours(e, o)} IN
  /\ flowReq[q].step = "siblings"
  /\ IF candidates = {} THEN FlowRequestEnds(q)
     ELSE \E o \in candidates :
            flowReq' = [flowReq EXCEPT ![q].step = "swap", ![q].peer = o, ![q].peerRow = execRow[o]]
  /\ UNCHANGED <<flowRows, builtIn, execRow, configRows, spent, stale, mixed>>

\* Mutant: the row takes a step and its neighbour stays.
MoveOnlyOne(q) ==
  LET e == flowReq[q].exec
      row == [flowReq[q].row EXCEPT !.priority = flowReq[q].peerRow.priority] IN
  /\ flowReq[q].step = "swap"
  /\ IF e \in Live THEN UpdateExecution(q, e, row) ELSE UNCHANGED <<execRow, stale>>
  /\ FlowRequestEnds(q)
  /\ UNCHANGED <<flowRows, builtIn, configRows, spent, mixed>>

\* The first of two writes; an error ends the request.
SwapFirst(q) ==
  LET e == flowReq[q].exec
      row == [flowReq[q].row EXCEPT !.priority = flowReq[q].peerRow.priority] IN
  /\ flowReq[q].step = "swap"
  /\ IF e \in Live
     THEN /\ UpdateExecution(q, e, row)
          /\ flowReq' = [flowReq EXCEPT ![q].step = "swapOther"]
     ELSE FlowRequestEnds(q) /\ UNCHANGED <<execRow, stale>>
  /\ UNCHANGED <<flowRows, builtIn, configRows, spent, mixed>>

SwapSecond(q) ==
  LET o == flowReq[q].peer
      row == [flowReq[q].peerRow EXCEPT !.priority = flowReq[q].row.priority] IN
  /\ flowReq[q].step = "swapOther"
  /\ IF o \in Live THEN UpdateExecution(q, o, row) ELSE UNCHANGED <<execRow, stale>>
  /\ FlowRequestEnds(q)
  /\ UNCHANGED <<flowRows, builtIn, configRows, spent, mixed>>

-----------------------------------------------------------------------------
(* Configurations *)

\* createConfig: attached to nothing.
CreateConfig(q) ==
  /\ ServedAtOnce(q)
  /\ \E c \in ConfigIds \ spent : configRows' = configRows \cup {c} /\ spent' = spent \cup {c}
  /\ UNCHANGED <<flowRows, builtIn, execRow, stale, mixed>>

\* createExecutionConfig has read the execution and created the configuration.
PostExecutionConfig(q) ==
  /\ \E e \in Live, c \in ConfigIds \ spent :
       /\ configRows' = configRows \cup {c}
       /\ spent' = spent \cup {c}
       /\ FlowRequestArrives(q, execRow[e].parent,
            [IdleFlowRequest EXCEPT !.step = "attach", !.flow = execRow[e].parent, !.exec = e,
                                    !.row = [execRow[e] EXCEPT !.config = c],
                                    !.previous = execRow[e].config])
  /\ UNCHANGED <<flowRows, builtIn, execRow, stale>>

AttachConfig(q) ==
  /\ flowReq[q].step = "attach"
  /\ IF flowReq[q].exec \in Live
     THEN /\ UpdateExecution(q, flowReq[q].exec, flowReq[q].row)
          /\ IF flowReq[q].previous = Nil THEN FlowRequestEnds(q)
             ELSE flowReq' = [flowReq EXCEPT ![q].step = "detach"]
     ELSE FlowRequestEnds(q) /\ UNCHANGED <<execRow, stale>>
  /\ UNCHANGED <<flowRows, builtIn, configRows, spent, mixed>>

\* Mutant: the pointers are left as they are.
DropConfigOnly(c) ==
  /\ configRows' = configRows \ {c}
  /\ UNCHANGED execRow

\* DeleteConfig, one transaction: every execution that points at it is cleared.
DropConfig(c) ==
  /\ configRows' = configRows \ {c}
  /\ execRow' = [e \in ExecIds |-> IF e \in Live /\ execRow[e].config = c
                                   THEN [execRow[e] EXCEPT !.config = Nil] ELSE execRow[e]]

\* Every other request that is under way has met the deletion.
Late(requests) ==
  [q \in FlowRequests |-> IF requests[q].step \in {"idle", "over"} THEN requests[q]
                          ELSE [requests[q] EXCEPT !.late = TRUE]]

\* The last write of createExecutionConfig; a configuration that is gone is no error.
DetachConfig(q) ==
  LET c == flowReq[q].previous IN
  /\ flowReq[q].step = "detach"
  /\ IF c \in configRows
     THEN DropConfig(c) /\ flowReq' = Late([flowReq EXCEPT ![q] = OverFlowRequest])
     ELSE FlowRequestEnds(q) /\ UNCHANGED <<configRows, execRow>>
  /\ UNCHANGED <<flowRows, builtIn, spent, stale, mixed>>

DeleteConfig(q) ==
  /\ flowReq[q].step = "idle"
  /\ \E c \in configRows : DropConfig(c)
  /\ flowReq' = Late([flowReq EXCEPT ![q] = OverFlowRequest])
  /\ UNCHANGED <<flowRows, builtIn, spent, stale, mixed>>

-----------------------------------------------------------------------------
(* copyFlow *)

Top(q) == flowReq[q].frames[1]

\* The index of flows is read once, and the copy goes by it.
PostCopy(q) ==
  /\ flowReq[q].step = "idle"
  /\ \E f \in flowRows :
       flowReq' = [flowReq EXCEPT ![q] = [IdleFlowRequest EXCEPT !.step = "copy", !.sub = f,
                                                                 !.index = flowRows]]
  /\ UNCHANGED <<flowRows, builtIn, execRow, configRows, spent, stale, mixed>>

\* copyFlowTree begins: the flow's own row; a copy is never built in.
CopyFlow(q) ==
  /\ flowReq[q].step = "copy"
  /\ \E f \in FlowIds \ spent :
       /\ flowRows' = flowRows \cup {f}
       /\ spent' = spent \cup {f}
       /\ flowReq' = [flowReq EXCEPT
            ![q].step = "list", ![q].sub = Nil,
            ![q].frames = <<[from |-> flowReq[q].sub, to |-> f, todo |-> {}, at |-> Nil]>> \o @]
  /\ UNCHANGED <<builtIn, execRow, configRows, stale, mixed>>

ListForCopy(q) ==
  LET f == Top(q).from IN
  /\ flowReq[q].step = "list"
  /\ flowReq' = [flowReq EXCEPT ![q].step = "rows",
                                ![q].frames[1].todo = {<<e, execRow[e]>> : e \in RowsOf(f)}]
  /\ mixed' = IF f \in mixed \/ ~Quiet(f) THEN mixed \cup {Top(q).to} ELSE mixed
  /\ UNCHANGED <<flowRows, builtIn, execRow, configRows, spent, stale>>

\* The copied row lands in the copy, unless that is gone.
PlaceCopy(q, frames, r, sub) ==
  IF frames[1].to \in flowRows
  THEN /\ \E e \in ExecIds \ spent :
            CreateExecution(q, e, [r[2] EXCEPT !.parent = frames[1].to, !.sub = sub],
                            flowReq[q].late \/ r[1] \in stale)
       /\ flowReq' = [flowReq EXCEPT ![q].step = "rows", ![q].frames = frames]
       /\ UNCHANGED mixed
  ELSE FlowRequestFails(q) /\ UNCHANGED <<execRow, spent, stale>>

\* Mutant: a copied row stands for the sub-flow of the row it was copied from.
CopyRowShallow(q) ==
  /\ flowReq[q].step = "rows"
  /\ \E r \in Top(q).todo :
       PlaceCopy(q, [flowReq[q].frames EXCEPT ![1].todo = @ \ {r}], r, r[2].sub)
  /\ UNCHANGED <<flowRows, builtIn, configRows>>

\* One row: with a sub-flow that the index knows, the sub-flow is copied first.
CopyRow(q) ==
  /\ flowReq[q].step = "rows"
  /\ \E r \in Top(q).todo :
       LET left == [flowReq[q].frames EXCEPT ![1].todo = @ \ {r}] IN
       IF r[2].sub \in flowReq[q].index
       THEN /\ flowReq' = [flowReq EXCEPT ![q].step = "copy", ![q].sub = r[2].sub,
                                          ![q].frames = [left EXCEPT ![1].at = r]]
            /\ UNCHANGED <<execRow, spent, stale, mixed>>
       ELSE PlaceCopy(q, left, r, Nil)
  /\ UNCHANGED <<flowRows, builtIn, configRows>>

\* A flow is copied: its row in the flow above is next, or the request is done.
CopyReturns(q) ==
  /\ flowReq[q].step = "rows" /\ Top(q).todo = {}
  /\ IF Len(flowReq[q].frames) = 1
     THEN FlowRequestEnds(q) /\ UNCHANGED <<execRow, spent, stale, mixed>>
     ELSE LET above == Tail(flowReq[q].frames) IN
          PlaceCopy(q, [above EXCEPT ![1].at = Nil], above[1].at, Top(q).to)
  /\ UNCHANGED <<flowRows, builtIn, configRows>>

\* The request is cancelled or the store fails.
CutFlowRequest(q) ==
  /\ flowReq[q].step \notin {"idle", "over"}
  /\ FlowRequestFails(q)
  /\ UNCHANGED <<flowRows, builtIn, execRow, configRows, spent, stale>>

-----------------------------------------------------------------------------
FlowsNext ==
  \E q \in FlowRequests :
    \/ CreateFlow(q) \/ DeleteFlow(q) \/ CreateNumberedExecution(q) \/ DeleteExecution(q)
    \/ CreateConfig(q) \/ DeleteConfig(q)
    \/ PostExecution(q) \/ PostSubFlow(q) \/ CreateSubFlow(q) \/ NextPriority(q) \/ PlaceExecution(q)
    \/ PutExecution(q) \/ WriteExecution(q)
    \/ MovePriority(q) \/ FindNeighbour(q) \/ SwapFirst(q) \/ SwapSecond(q)
    \/ PostExecutionConfig(q) \/ AttachConfig(q) \/ DetachConfig(q)
    \/ PostCopy(q) \/ CopyFlow(q) \/ ListForCopy(q) \/ CopyRow(q) \/ CopyReturns(q)
    \/ CutFlowRequest(q)

FlowsSpec == FlowsInit /\ [][FlowsNext]_flowsVars

-----------------------------------------------------------------------------
(* Properties *)

\* "no row is left serving an authenticationConfig id that resolves to a 404"
\* (deleteConfig): an execution points at a configuration that is there, however
\* many copies share it - unless the row was written by a request that had read
\* it before the configuration went.
NoDanglingConfig ==
  \A e \in Live : execRow[e].config \in configRows \cup {Nil} \/ e \in stale

\* "The copy is deep" (copyFlow): no two executions stand for one sub-flow, so
\* that the walks over a flow come back and a change below a copy stays there.
SubFlowsNotShared ==
  \A e, o \in Live : e # o /\ execRow[e].sub = execRow[o].sub => execRow[e].sub = Nil

\* movePriority and nextPriority: "Decrementing would produce a duplicate
\* priority and an order nothing defines".  A flow that only appends and swaps
\* have built is numbered 0, 1, 2 ... - copies of such a flow too.
PrioritiesDense ==
  \A f \in flowRows \ mixed :
    Quiet(f) => {execRow[e].priority : e \in RowsOf(f)} = 0..(Cardinality(RowsOf(f)) - 1)
=============================================================================
