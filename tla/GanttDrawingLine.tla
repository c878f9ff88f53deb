-------------------------- MODULE GanttDrawingLine --------------------------
(***************************************************************************)
(* The task-dependency line of the Gantt view, as written in              *)
(* src/packages/datasheet/src/pc/components/gantt_view/hooks/              *)
(* use_gantt_drawing_line.tsx, run by several collaborating clients over   *)
(* one shared datasheet.                                                   *)
(*                                                                         *)
(* A client selects a task bar, drags the small circle at its end and      *)
(* releases it over another task.  While dragging, onDragMove works out    *)
(* which task the pointer is over (includeTask) and whether the line       *)
(* would be an error line (checkErrorLine: a self link, a target starting  *)
(* before the source ends, or a link closing a cycle).  On release,        *)
(* onDragEnd writes the source record id into the target record's link     *)
(* cell with a SetRecords command, unless the target is the source, the    *)
(* client may not edit the link field, or the field allows a single        *)
(* record and the cell already holds one.  The command reaches the store   *)
(* through DataStorageProvider.saveOps -> operationExecuted.               *)
(*                                                                         *)
(* The hook reads the cell values from `state`/`snapshot` captured at its  *)
(* last render, so a client's `view` of the link cells may lag behind the *)
(* shared store `cell`; Render brings it up to date.                      *)
(***************************************************************************)
EXTENDS Naturals, Sequences, Functions, Relation

CONSTANTS
    Clients,        \* the collaborating clients, each with its own Gantt view
    Records,        \* the record ids of the datasheet, each drawn as a task bar
    NoRecord,       \* includeTask's '' : the pointer is over no task
    NoTarget,       \* targetTaskInfo before any drag has moved
    StartDate,      \* StartDate[r]: the start-field cell of r (0 = empty)
    EndDate,        \* EndDate[r]: the end-field cell of r (0 = empty)
    MaxLinks        \* bound on the length of a link cell, for TLC

ASSUME ConstantsAssumption ==
    /\ NoRecord \notin Records
    /\ NoTarget \notin Records \cup {NoRecord}
    /\ StartDate \in [Records -> Nat]
    /\ EndDate \in [Records -> Nat]
    /\ MaxLinks \in Nat \ {0}

VARIABLES
    cell,           \* cell[r]: the link-field cell of record r in the store
    view,           \* view[c][r]: that cell as of client c's last render
    limitSingle,    \* linkFieldInfo.property.limitSingleRecord
    canDraw,        \* canDraw[c]: c's role on the link field is Editor or null
    drawing,        \* drawing[c]: isTaskLineDrawing on client c
    taskBlock,      \* taskBlock[c]: taskBlock.current.id, the source task
    target,         \* target[c]: targetTaskInfo on client c
    past            \* history, not program state: past[r] holds every value
                    \* cell[r] has had, for the refinement of LinkStore

vars == <<cell, view, limitSingle, canDraw, drawing, taskBlock, target, past>>

LinkCell == {s \in Seq(Records) : Len(s) <= MaxLinks}

TargetInfo == [recordId : Records \cup {NoRecord}, dashEnabled : BOOLEAN]

(***************************************************************************)
(* The dependency graph the view draws: an edge s -> r for every s in the  *)
(* link cell of r (sourceAdj of linkCycleEdges).                           *)
(***************************************************************************)
SourceAdj(v) == [p \in Records \X Records |-> p[1] \in Range(v[p[2]])]

(***************************************************************************)
(* getAllCycleDAG(nodeIdMapCopy, sourceAdjCopy) lists the edges lying on   *)
(* a cycle once s -> t is added; getTaskLineName(s, t) is among them       *)
(* exactly when t already reaches s.                                       *)
(***************************************************************************)
ClosesCycle(v, s, t) == TransitiveClosure(SourceAdj(v), Records)[t, s]

(***************************************************************************)
(* checkErrorLine(sourceId, targetId): both date cells are truthy (an      *)
(* empty cell is 0 here) and the target starts no later than the source    *)
(* ends, or the line is a self link, or it closes a cycle.  A source that  *)
(* is no record has no end date (getCellValue gives null) and no edges.    *)
(***************************************************************************)
checkErrorLine(v, s, t) ==
    \/ s = t
    \/ /\ s \in Records
       /\ StartDate[t] # 0
       /\ EndDate[s] # 0
       /\ StartDate[t] <= EndDate[s]
    \/ s \in Records /\ ClosesCycle(v, s, t)

Init ==
    /\ cell = [r \in Records |-> <<>>]
    /\ view = [c \in Clients |-> cell]
    /\ limitSingle \in BOOLEAN
    /\ canDraw \in [Clients -> BOOLEAN]
    /\ drawing = [c \in Clients |-> FALSE]
    /\ taskBlock = [c \in Clients |-> NoRecord]
    /\ target = [c \in Clients |-> NoTarget]
    /\ past = [r \in Records |-> {<<>>}]

(***************************************************************************)
(* Client c re-renders: `state` and `snapshot` are read again.             *)
(***************************************************************************)
Render(c) ==
    /\ view[c] # cell
    /\ view' = [view EXCEPT ![c] = cell]
    /\ UNCHANGED <<cell, limitSingle, canDraw, drawing, taskBlock, target, past>>

\* Mutation: taskBlock.current is not refreshed when the drag starts.
DragStartStaleBlock(c, r) ==
    /\ ~drawing[c]
    /\ drawing' = [drawing EXCEPT ![c] = TRUE]
    /\ UNCHANGED <<cell, view, limitSingle, canDraw, taskBlock, target, past>>

(***************************************************************************)
(* Client c starts dragging the line point of the selected task r: the     *)
(* hook rendered it (transformerId names r, no task is being dragged) and, *)
(* not yet drawing, stored r in taskBlock.current.                         *)
(***************************************************************************)
DragStart(c, r) ==
    /\ ~drawing[c]
    /\ drawing' = [drawing EXCEPT ![c] = TRUE]
    /\ taskBlock' = [taskBlock EXCEPT ![c] = r]
    /\ UNCHANGED <<cell, view, limitSingle, canDraw, target, past>>

(***************************************************************************)
(* onDragMove: the pointer is over task t (or over none, t = NoRecord);   *)
(* setTargetTaskInfo records it with the error-line flag.                  *)
(***************************************************************************)
onDragMove(c, t) ==
    /\ drawing[c]
    /\ target' = [target EXCEPT ![c] =
                    [recordId |-> t,
                     dashEnabled |-> t # NoRecord
                                     /\ checkErrorLine(view[c], taskBlock[c], t)]]
    /\ UNCHANGED <<cell, view, limitSingle, canDraw, drawing, taskBlock, past>>

\* Mutation: onDragEnd without the limitSingleRecord check.
LinkToWriteNoLimit(c) ==
    LET s == taskBlock[c]
        t == target[c].recordId
    IN  IF target[c] # NoTarget /\ t # NoRecord /\ t # s /\ canDraw[c]
        THEN t ELSE NoTarget

\* Mutation: onDragEnd without the recordId === sourceRecordId return.
LinkToWriteNoSelfCheck(c) ==
    LET s == taskBlock[c]
        t == target[c].recordId
    IN  IF /\ target[c] # NoTarget /\ t # NoRecord /\ canDraw[c]
           /\ ~(limitSingle /\ Len(view[c][t]) > 0)
        THEN t ELSE NoTarget

(***************************************************************************)
(* DataStorageProvider.saveOps(ops): operationExecuted applies the         *)
(* SetRecords op, which stores value in the link cell of record t.         *)
(***************************************************************************)
saveOps(t, value) ==
    cell' = [cell EXCEPT ![t] = value]

(***************************************************************************)
(* The link onDragEnd would write, or NoTarget when one of its early       *)
(* returns is taken.                                                       *)
(***************************************************************************)
LinkToWrite(c) ==
    LET s == taskBlock[c]
        t == target[c].recordId
    IN  IF /\ target[c] # NoTarget
           /\ t # NoRecord
           /\ t # s
           /\ canDraw[c]
           /\ ~(limitSingle /\ Len(view[c][t]) > 0)
        THEN t
        ELSE NoTarget

\* Mutation: getCellValue reads the source's cell instead of the target's.
onDragEndSourceCell(c) ==
    LET t == LinkToWrite(c) IN
    /\ drawing[c]
    /\ drawing' = [drawing EXCEPT ![c] = FALSE]
    /\ IF t = NoTarget
         THEN UNCHANGED <<cell, past>>
         ELSE /\ Len(view[c][taskBlock[c]]) < MaxLinks
              /\ saveOps(t, Append(view[c][taskBlock[c]], taskBlock[c]))
              /\ past' = [past EXCEPT ![t] = @ \cup {cell'[t]}]
    /\ UNCHANGED <<view, limitSingle, canDraw, taskBlock, target>>

(***************************************************************************)
(* onDragEnd: the drag is over; when no early return is taken, SetRecords  *)
(* stores [...cellValue, sourceRecordId] in the target's cell, cellValue   *)
(* being the target cell as c last rendered it.  saveOps hands the op to  *)
(* operationExecuted, which applies it to the store.  The history past   *)
(* records the value written.                                              *)
(***************************************************************************)
onDragEnd(c) ==
    LET t == LinkToWrite(c) IN
    /\ drawing[c]
    /\ drawing' = [drawing EXCEPT ![c] = FALSE]
    /\ IF t = NoTarget
         THEN UNCHANGED <<cell, past>>
         ELSE /\ Len(view[c][t]) < MaxLinks
              /\ saveOps(t, Append(view[c][t], taskBlock[c]))
              /\ past' = [past EXCEPT ![t] = @ \cup {cell'[t]}]
    /\ UNCHANGED <<view, limitSingle, canDraw, taskBlock, target>>

Next ==
    \E c \in Clients :
        \/ Render(c)
        \/ \E r \in Records : DragStart(c, r)
        \/ \E t \in Records \cup {NoRecord} : onDragMove(c, t)
        \/ onDragEnd(c)

Spec == Init /\ [][Next]_vars

-----------------------------------------------------------------------------
TypeOK ==
    /\ cell \in [Records -> LinkCell]
    /\ view \in [Clients -> [Records -> LinkCell]]
    /\ limitSingle \in BOOLEAN
    /\ canDraw \in [Clients -> BOOLEAN]
    /\ drawing \in [Clients -> BOOLEAN]
    /\ taskBlock \in [Clients -> Records \cup {NoRecord}]
    /\ target \in [Clients -> TargetInfo \cup {NoTarget}]

(***************************************************************************)
(* A link field that allows a single record never holds two in any cell,  *)
(* whatever the clients do concurrently: each onDragEnd checks the cell   *)
(* as it last rendered it, and another client may have linked the same    *)
(* target since.                                                           *)
(***************************************************************************)
LimitRespected ==
    limitSingle => \A r \in Records : Len(cell[r]) <= 1

(***************************************************************************)
(* No task is ever linked to itself, although the target the release uses  *)
(* was chosen during an earlier move and the source is taskBlock.current. *)
(***************************************************************************)
NoSelfLink ==
    \A r \in Records : r \notin Range(cell[r])

-----------------------------------------------------------------------------
(***************************************************************************)
(* The hook implements the link store: every release that writes puts into *)
(* the target's cell a value that cell really held at some earlier time    *)
(* (the one the client last rendered), followed by the source.  A write    *)
(* from a stale render thus loses exactly the links added to that cell    *)
(* since, and never takes its base from another record's cell.             *)
(***************************************************************************)
Abstract == INSTANCE LinkStore WITH cell <- cell, past <- past,
                                  limitSingle <- limitSingle, Records <- Records

ImplementsLinkStore == Abstract!Spec

=============================================================================
