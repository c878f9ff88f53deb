------------------------- MODULE FormulaModalProofs -------------------------
(***************************************************************************)
(* Proofs, for any number of editors opened, that removeNode never meets a *)
(* detached container and that an ended editor leaves nothing behind.     *)
(***************************************************************************)
EXTENDS FormulaModal, TLAPS

(***************************************************************************)
(* A mounted editor's container is in the page, and a container not yet   *)
(* created belongs to an editor that has not ended.                        *)
(***************************************************************************)
MountedAttached ==
    \A m \in Modals : mounted[m] => container[m] = "attached"

NotCreatedOpen ==
    \A m \in Modals : container[m] = "none" => outcome[m] = "open"

IInv == /\ TypeOK
        /\ NoCrash
        /\ ClosedModalRemoved
        /\ MountedAttached
        /\ NotCreatedOpen

LEMMA InitIInv == Init => IInv
BY DEF Init, IInv, TypeOK, NoCrash, ClosedModalRemoved, MountedAttached,
       NotCreatedOpen

(***************************************************************************)
(* An editor ends through removeNode while mounted, so its container is   *)
(* attached and the removal succeeds.                                      *)
(***************************************************************************)
LEMMA EndIInv ==
    ASSUME IInv, NEW m \in Modals, NEW result \in {"closed", "saved"},
           mounted[m],
           removeNode(m),
           outcome' = [outcome EXCEPT ![m] = IF container[m] = "attached"
                                               THEN result ELSE @]
    PROVE  IInv'
<1>1. container[m] = "attached"
    BY DEF IInv, MountedAttached
<1>2. /\ mounted' = [mounted EXCEPT ![m] = FALSE]
      /\ container' = [container EXCEPT ![m] = "detached"]
      /\ crashed' = crashed
      /\ outcome' = [outcome EXCEPT ![m] = result]
    BY <1>1 DEF removeNode
<1>3. QED
    BY <1>2 DEF IInv, TypeOK, NoCrash, ClosedModalRemoved, MountedAttached,
                NotCreatedOpen

LEMMA NextIInv == IInv /\ [Next]_vars => IInv'
<1> SUFFICES ASSUME IInv, [Next]_vars PROVE IInv'
    OBVIOUS
<1>1. ASSUME NEW m \in Modals, openFormulaModal(m) PROVE IInv'
    BY <1>1 DEF openFormulaModal, IInv, TypeOK, NoCrash, ClosedModalRemoved,
                MountedAttached, NotCreatedOpen
<1>2. ASSUME NEW m \in Modals, onModalClose(m) PROVE IInv'
    BY <1>2, EndIInv DEF onModalClose
<1>3. ASSUME NEW m \in Modals, onModalSave(m) PROVE IInv'
    BY <1>3, EndIInv DEF onModalSave
<1>4. CASE UNCHANGED vars
    BY <1>4 DEF vars, IInv, TypeOK, NoCrash, ClosedModalRemoved,
                MountedAttached, NotCreatedOpen
<1>5. QED
    BY <1>1, <1>2, <1>3, <1>4 DEF Next

(***************************************************************************)
(* container.parentElement! is never null in removeNode, however many     *)
(* editors are open and however their closes and saves interleave.        *)
(***************************************************************************)
THEOREM NoCrashInvariant == Spec => []NoCrash
<1>1. IInv => NoCrash
    BY DEF IInv
<1>2. QED
    BY <1>1, InitIInv, NextIInv, PTL DEF Spec

(***************************************************************************)
(* An editor that reported closed or saved is unmounted and removed from  *)
(* the page.                                                               *)
(***************************************************************************)
THEOREM ClosedModalRemovedInvariant == Spec => []ClosedModalRemoved
<1>1. IInv => ClosedModalRemoved
    BY DEF IInv
<1>2. QED
    BY <1>1, InitIInv, NextIInv, PTL DEF Spec

(***************************************************************************)
(* The container, mount, outcome and crash flags of every editor keep     *)
(* their types.                                                            *)
(***************************************************************************)
THEOREM TypeCorrect == Spec => []TypeOK
<1>1. IInv => TypeOK
    BY DEF IInv
<1>2. QED
    BY <1>1, InitIInv, NextIInv, PTL DEF Spec

-----------------------------------------------------------------------------
(***************************************************************************)
(* Refinement of EditorLifecycle under phaseBar.                           *)
(***************************************************************************)
LEMMA InitRefines == Init => Lifecycle!Init
BY DEF Init, Lifecycle!Init, phaseBar

(***************************************************************************)
(* openFormulaModal is the lifecycle's Open: a container not yet created   *)
(* belongs to an editor still open, whose phase was idle.                  *)
(***************************************************************************)
LEMMA OpenRefines ==
    ASSUME IInv, NEW m \in Modals, openFormulaModal(m)
    PROVE  Lifecycle!Open(m)
<1>1. phaseBar[m] = "idle"
    BY DEF openFormulaModal, IInv, NotCreatedOpen, phaseBar
<1>2. phaseBar' = [phaseBar EXCEPT ![m] = "open"]
  <2>1. outcome' = outcome /\ outcome[m] = "open"
    BY DEF openFormulaModal, IInv, NotCreatedOpen
  <2>2. phaseBar'[m] = "open"
    BY <2>1 DEF openFormulaModal, IInv, TypeOK, phaseBar
  <2>3. \A x \in Modals \ {m} : phaseBar'[x] = phaseBar[x]
    BY <2>1 DEF openFormulaModal, IInv, TypeOK, phaseBar
  <2>4. QED
    BY <2>2, <2>3 DEF phaseBar
<1>3. QED
    BY <1>1, <1>2 DEF Lifecycle!Open

(***************************************************************************)
(* A close or a save is the lifecycle's End: the editor is mounted, so it  *)
(* has not ended yet and its container is attached.                       *)
(***************************************************************************)
LEMMA EndRefines ==
    ASSUME IInv, NEW m \in Modals, NEW result \in {"closed", "saved"},
           mounted[m],
           removeNode(m),
           outcome' = [outcome EXCEPT ![m] = IF container[m] = "attached"
                                               THEN result ELSE @]
    PROVE  Lifecycle!End(m, result)
<1>1. container[m] = "attached" /\ outcome[m] = "open"
    BY DEF IInv, MountedAttached, ClosedModalRemoved
<1>2. phaseBar[m] = "open"
    BY <1>1 DEF phaseBar
<1>3. /\ container' = [container EXCEPT ![m] = "detached"]
      /\ outcome' = [outcome EXCEPT ![m] = result]
    BY <1>1 DEF removeNode
<1>4. phaseBar' = [phaseBar EXCEPT ![m] = result]
    BY <1>3 DEF IInv, TypeOK, phaseBar
<1>5. QED
    BY <1>2, <1>4 DEF Lifecycle!End

LEMMA NextRefines == IInv /\ [Next]_vars => [Lifecycle!Next]_phaseBar
<1> SUFFICES ASSUME IInv, [Next]_vars PROVE [Lifecycle!Next]_phaseBar
    OBVIOUS
<1>1. ASSUME NEW m \in Modals, openFormulaModal(m)
      PROVE  Lifecycle!Next
    BY <1>1, OpenRefines DEF Lifecycle!Next
<1>2. ASSUME NEW m \in Modals, onModalClose(m)
      PROVE  Lifecycle!Next
    BY <1>2, EndRefines DEF onModalClose, Lifecycle!Next
<1>3. ASSUME NEW m \in Modals, onModalSave(m)
      PROVE  Lifecycle!Next
    BY <1>3, EndRefines DEF onModalSave, Lifecycle!Next
<1>4. CASE UNCHANGED vars
    BY <1>4 DEF vars, phaseBar
<1>5. QED
    BY <1>1, <1>2, <1>3, <1>4 DEF Next

(***************************************************************************)
(* The editor reports to its caller as EditorLifecycle says: opened before *)
(* it ends, and onClose or onSave called once, never both.                 *)
(***************************************************************************)
THEOREM Refinement == Spec => ImplementsLifecycle
<1>1. Spec => []IInv
    BY InitIInv, NextIInv, PTL DEF Spec
<1>2. QED
    BY <1>1, InitRefines, NextRefines, PTL
       DEF Spec, ImplementsLifecycle, Lifecycle!Spec

=============================================================================
