---------------------- MODULE GanttDrawingLineProofs ----------------------
(***************************************************************************)
(* Proofs, for every set of clients and records and every bound, that the  *)
(* Gantt dependency line keeps its link cells well typed, within the       *)
(* single-record limit, and free of self links.                           *)
(***************************************************************************)
EXTENDS GanttDrawingLine, SequenceTheorems, TLAPS

(***************************************************************************)
(* A client drawing a line has a source task.                              *)
(***************************************************************************)
DrawingHasSource ==
    \A c \in Clients : drawing[c] => taskBlock[c] \in Records

(***************************************************************************)
(* What a client last rendered has no self link either: views are earlier *)
(* values of the store, and onDragEnd appends to the view, not the store.  *)
(***************************************************************************)
ViewNoSelfLink ==
    \A c \in Clients, r \in Records : r \notin Range(view[c][r])

(***************************************************************************)
(* The store and every view hold values that the cell really had: the     *)
(* history variable past records each of them.                             *)
(***************************************************************************)
PastHolds ==
    /\ past \in [Records -> SUBSET LinkCell]
    /\ \A r \in Records : cell[r] \in past[r]
    /\ \A c \in Clients, r \in Records : view[c][r] \in past[r]

IInv == /\ TypeOK
        /\ DrawingHasSource
        /\ LimitRespected
        /\ NoSelfLink
        /\ ViewNoSelfLink
        /\ PastHolds

(***************************************************************************)
(* The records of a link cell after an append.                             *)
(***************************************************************************)
LEMMA RangeAppend ==
    ASSUME NEW S, NEW s \in Seq(S), NEW x
    PROVE  Range(Append(s, x)) = Range(s) \cup {x}
BY DEF Range

LEMMA InitIInv == Init => IInv
BY ConstantsAssumption
   DEF Init, IInv, TypeOK, LinkCell, DrawingHasSource, LimitRespected,
       NoSelfLink, ViewNoSelfLink, PastHolds, Range

(***************************************************************************)
(* What a writing onDragEnd does: the target is a record other than the   *)
(* source, the view cell it appends to had room and, under the limit, was *)
(* empty, and only the target's cell and the client's drawing flag change.*)
(***************************************************************************)
LEMMA DragEndWrite ==
    ASSUME IInv, NEW c \in Clients, onDragEnd(c), LinkToWrite(c) # NoTarget
    PROVE  LET t == LinkToWrite(c) IN
           /\ t \in Records
           /\ t # taskBlock[c]
           /\ limitSingle => Len(view[c][t]) = 0
           /\ taskBlock[c] \in Records
           /\ view[c][t] \in Seq(Records)
           /\ Len(view[c][t]) < MaxLinks
           /\ cell' = [cell EXCEPT ![t] = Append(view[c][t], taskBlock[c])]
           /\ past' = [past EXCEPT ![t] = @ \cup {Append(view[c][t], taskBlock[c])}]
           /\ UNCHANGED <<view, limitSingle, canDraw, taskBlock, target>>
           /\ drawing' = [drawing EXCEPT ![c] = FALSE]
<1> DEFINE t == LinkToWrite(c)
<1>1. /\ target[c] # NoTarget
      /\ target[c].recordId # NoRecord
      /\ target[c].recordId # taskBlock[c]
      /\ ~(limitSingle /\ Len(view[c][target[c].recordId]) > 0)
      /\ t = target[c].recordId
    BY ConstantsAssumption DEF LinkToWrite
<1>2. /\ t \in Records
      /\ t # taskBlock[c]
      /\ limitSingle => Len(view[c][t]) = 0
    BY <1>1 DEF IInv, TypeOK, TargetInfo, LinkCell
<1>3. /\ Len(view[c][t]) < MaxLinks
      /\ cell' = [cell EXCEPT ![t] = Append(view[c][t], taskBlock[c])]
      /\ past' = [past EXCEPT ![t] = @ \cup {cell'[t]}]
      /\ UNCHANGED <<view, limitSingle, canDraw, taskBlock, target>>
      /\ drawing' = [drawing EXCEPT ![c] = FALSE]
    BY DEF onDragEnd, saveOps
<1>4. /\ taskBlock[c] \in Records
      /\ view[c][t] \in Seq(Records)
    BY <1>2 DEF onDragEnd, IInv, TypeOK, DrawingHasSource, LinkCell
<1>5. cell'[t] = Append(view[c][t], taskBlock[c])
    BY <1>2, <1>3 DEF IInv, TypeOK
<1>6. QED
    BY <1>2, <1>3, <1>4, <1>5

(***************************************************************************)
(* onDragEnd keeps the invariant.                                          *)
(***************************************************************************)
LEMMA DragEndIInv ==
    ASSUME IInv, NEW c \in Clients, onDragEnd(c)
    PROVE  IInv'
<1> DEFINE t == LinkToWrite(c)
<1>1. CASE t = NoTarget
    BY <1>1 DEF onDragEnd, IInv, TypeOK, DrawingHasSource, LimitRespected,
                NoSelfLink, ViewNoSelfLink, PastHolds
<1>2. CASE t # NoTarget
    <2>1. /\ t \in Records
          /\ t # taskBlock[c]
          /\ limitSingle => Len(view[c][t]) = 0
          /\ taskBlock[c] \in Records
          /\ view[c][t] \in Seq(Records)
          /\ Len(view[c][t]) < MaxLinks
          /\ cell' = [cell EXCEPT ![t] = Append(view[c][t], taskBlock[c])]
          /\ past' = [past EXCEPT ![t] = @ \cup {Append(view[c][t], taskBlock[c])}]
          /\ UNCHANGED <<view, limitSingle, canDraw, taskBlock, target>>
          /\ drawing' = [drawing EXCEPT ![c] = FALSE]
        BY <1>2, DragEndWrite
    <2>2. Range(Append(view[c][t], taskBlock[c])) = Range(view[c][t]) \cup {taskBlock[c]}
        BY <2>1, RangeAppend
    <2>3. TypeOK'
        <3>1. Append(view[c][t], taskBlock[c]) \in LinkCell
            BY <2>1, ConstantsAssumption DEF LinkCell
        <3>2. QED
            BY <2>1, <3>1 DEF IInv, TypeOK
    <2>4. LimitRespected'
        BY <2>1 DEF IInv, TypeOK, LimitRespected, LinkCell
    <2>5. NoSelfLink'
        BY <2>1, <2>2 DEF IInv, NoSelfLink, ViewNoSelfLink, TypeOK
    <2>6. PastHolds'
        <3>1. Append(view[c][t], taskBlock[c]) \in LinkCell
            BY <2>1, ConstantsAssumption DEF LinkCell
        <3>2. past' \in [Records -> SUBSET LinkCell]
            BY <2>1, <3>1 DEF IInv, PastHolds
        <3>3. \A r \in Records : cell'[r] \in past'[r]
            BY <2>1 DEF IInv, PastHolds, TypeOK
        <3>4. \A d \in Clients, r \in Records : view'[d][r] \in past'[r]
            BY <2>1 DEF IInv, PastHolds
        <3>5. QED
            BY <3>2, <3>3, <3>4 DEF PastHolds
    <2>7. QED
        BY <2>1, <2>3, <2>4, <2>5, <2>6 DEF IInv, DrawingHasSource, ViewNoSelfLink
<1>3. QED
    BY <1>1, <1>2

LEMMA NextIInv == IInv /\ [Next]_vars => IInv'
<1> SUFFICES ASSUME IInv, [Next]_vars PROVE IInv'
    OBVIOUS
<1>1. ASSUME NEW c \in Clients, Render(c) PROVE IInv'
    BY <1>1 DEF Render, IInv, TypeOK, DrawingHasSource, LimitRespected,
                NoSelfLink, ViewNoSelfLink, PastHolds
<1>2. ASSUME NEW c \in Clients, NEW r \in Records, DragStart(c, r) PROVE IInv'
    BY <1>2 DEF DragStart, IInv, TypeOK, DrawingHasSource, LimitRespected,
                NoSelfLink, ViewNoSelfLink, PastHolds
<1>3. ASSUME NEW c \in Clients, NEW t \in Records \cup {NoRecord},
             onDragMove(c, t)
      PROVE  IInv'
    BY <1>3 DEF onDragMove, IInv, TypeOK, TargetInfo, DrawingHasSource,
                LimitRespected, NoSelfLink, ViewNoSelfLink, PastHolds
<1>4. ASSUME NEW c \in Clients, onDragEnd(c) PROVE IInv'
    BY <1>4, DragEndIInv
<1>5. CASE UNCHANGED vars
    BY <1>5 DEF vars, IInv, TypeOK, DrawingHasSource, LimitRespected,
                NoSelfLink, ViewNoSelfLink, PastHolds
<1>6. QED
    BY <1>1, <1>2, <1>3, <1>4, <1>5 DEF Next

(***************************************************************************)
(* The link cells and the clients' state keep their types.                 *)
(***************************************************************************)
THEOREM TypeCorrect == Spec => []TypeOK
<1>1. IInv => TypeOK
    BY DEF IInv
<1>2. QED
    BY <1>1, InitIInv, NextIInv, PTL DEF Spec

(***************************************************************************)
(* onDragEnd never puts a second record into a single-record link cell,    *)
(* however the clients' renders and releases interleave.                   *)
(***************************************************************************)
THEOREM LimitRespectedInvariant == Spec => []LimitRespected
<1>1. IInv => LimitRespected
    BY DEF IInv
<1>2. QED
    BY <1>1, InitIInv, NextIInv, PTL DEF Spec

(***************************************************************************)
(* No task is ever linked to itself.                                       *)
(***************************************************************************)
THEOREM NoSelfLinkInvariant == Spec => []NoSelfLink
<1>1. IInv => NoSelfLink
    BY DEF IInv
<1>2. QED
    BY <1>1, InitIInv, NextIInv, PTL DEF Spec

-----------------------------------------------------------------------------
LEMMA InitRefines == Init => Abstract!Init
BY DEF Init, Abstract!Init

(***************************************************************************)
(* Every step of the hook is a Link step of the store, on top of the cell *)
(* value the client last rendered, or leaves the cells, their history and *)
(* the field setting unchanged.                                            *)
(***************************************************************************)
LEMMA NextRefines ==
    IInv /\ [Next]_vars => [Abstract!Next]_<<cell, past, limitSingle>>
<1> SUFFICES ASSUME IInv, [Next]_vars
             PROVE  [Abstract!Next]_<<cell, past, limitSingle>>
    OBVIOUS
<1>1. ASSUME NEW c \in Clients, onDragEnd(c), LinkToWrite(c) # NoTarget
      PROVE  Abstract!Next
    <2> DEFINE t == LinkToWrite(c)
               v == view[c][t]
    <2>1. /\ t \in Records
          /\ t # taskBlock[c]
          /\ limitSingle => Len(v) = 0
          /\ taskBlock[c] \in Records
          /\ v \in Seq(Records)
          /\ cell' = [cell EXCEPT ![t] = Append(v, taskBlock[c])]
          /\ past' = [past EXCEPT ![t] = @ \cup {Append(v, taskBlock[c])}]
          /\ UNCHANGED limitSingle
        BY <1>1, DragEndWrite
    <2>2. v \in past[t]
        BY <2>1 DEF IInv, PastHolds
    <2>3. limitSingle => v = <<>>
        BY <2>1, EmptySeq
    <2>4. Abstract!Link(t, taskBlock[c], v)
        BY <2>1, <2>2, <2>3 DEF Abstract!Link
    <2>5. QED
        BY <2>1, <2>2, <2>4 DEF Abstract!Next
<1>2. ASSUME NEW c \in Clients, onDragEnd(c), LinkToWrite(c) = NoTarget
      PROVE  UNCHANGED <<cell, past, limitSingle>>
    BY <1>2 DEF onDragEnd
<1>3. QED
    BY <1>1, <1>2 DEF Next, vars, Render, DragStart, onDragMove

(***************************************************************************)
(* The dependency-line hook implements the link store: whatever the       *)
(* clients draw, from however stale a render, each write puts into the    *)
(* target's cell an earlier value of that same cell followed by one source *)
(* other than the target, within the single-record limit.                  *)
(***************************************************************************)
THEOREM Refinement == Spec => ImplementsLinkStore
<1>1. Spec => []IInv
    BY InitIInv, NextIInv, PTL DEF Spec
<1>2. QED
    BY <1>1, InitRefines, NextRefines, PTL DEF Spec, ImplementsLinkStore, Abstract!Spec

=============================================================================
