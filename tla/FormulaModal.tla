---------------------------- MODULE FormulaModal ----------------------------
(***************************************************************************)
(* The formula editor opened by openFormulaModal in src/packages/datasheet/*)
(* src/pc/components/multi_grid/format/format_formula/                     *)
(* open_formula_modal.tsx.                                                 *)
(*                                                                         *)
(* Each call creates a <div> container, appends it to document.body and    *)
(* renders the editor into it (ReactDOM.render of legacy React is          *)
(* synchronous).  The editor, the antd Modal's onCancel and the mobile     *)
(* Popup's onClose end it through onModalClose or onModalSave: both call   *)
(* removeNode (unmount the tree, then container.parentElement!.           *)
(* removeChild) and then the caller's onClose or onSave.  The modal has no *)
(* mask, so the page under it stays usable and the editor can be opened    *)
(* again while one is open.  Event handlers of a tree run only while it is *)
(* mounted; each runs to completion.                                       *)
(***************************************************************************)
EXTENDS Naturals

CONSTANTS
    Modals       \* the openFormulaModal calls the UI makes

VARIABLES
    container,   \* container[m]: "none" (not created), "attached", "detached"
    mounted,     \* mounted[m]: the editor tree of m is mounted in its container
    outcome,     \* outcome[m]: "open", or "closed"/"saved" once onClose/onSave ran
    crashed      \* crashed[m]: removeNode of m threw (parentElement was null)

vars == <<container, mounted, outcome, crashed>>

Init ==
    /\ container = [m \in Modals |-> "none"]
    /\ mounted = [m \in Modals |-> FALSE]
    /\ outcome = [m \in Modals |-> "open"]
    /\ crashed = [m \in Modals |-> FALSE]

\* Mutation: the container is rendered into without document.body.appendChild.
openFormulaModalNoAppend(m) ==
    /\ container[m] = "none"
    /\ container' = [container EXCEPT ![m] = "created"]
    /\ mounted' = [mounted EXCEPT ![m] = TRUE]
    /\ UNCHANGED <<outcome, crashed>>

(***************************************************************************)
(* openFormulaModal(props): createElement('div'), appendChild, render.     *)
(***************************************************************************)
openFormulaModal(m) ==
    /\ container[m] = "none"
    /\ container' = [container EXCEPT ![m] = "attached"]
    /\ mounted' = [mounted EXCEPT ![m] = TRUE]
    /\ UNCHANGED <<outcome, crashed>>

(***************************************************************************)
(* removeNode: unmountComponentAtNode(container), then                     *)
(* container.parentElement!.removeChild(container), which throws when the  *)
(* container has no parent.  It succeeds exactly when the container is     *)
(* attached.                                                               *)
(***************************************************************************)
removeNode(m) ==
    /\ mounted' = [mounted EXCEPT ![m] = FALSE]
    /\ IF container[m] = "attached"
         THEN /\ container' = [container EXCEPT ![m] = "detached"]
              /\ UNCHANGED crashed
         ELSE /\ crashed' = [crashed EXCEPT ![m] = TRUE]
              /\ UNCHANGED container

\* Mutation: onModalSave forgets to remove the container.
onModalSaveNoRemove(m) ==
    /\ mounted[m]
    /\ outcome' = [outcome EXCEPT ![m] = "saved"]
    /\ UNCHANGED <<container, mounted, crashed>>

\* Mutation: onModalSave ends by calling onModalClose, so removeNode runs a
\* second time on a container that has no parent any more.
onModalSaveThenClose(m) ==
    /\ mounted[m]
    /\ mounted' = [mounted EXCEPT ![m] = FALSE]
    /\ container' = [container EXCEPT ![m] = "detached"]
    /\ outcome' = [outcome EXCEPT ![m] = IF container[m] = "attached"
                                           THEN "saved" ELSE @]
    /\ crashed' = [crashed EXCEPT ![m] = TRUE]

(***************************************************************************)
(* onModalClose: removeNode(); onClose && onClose().  A throw in           *)
(* removeNode skips onClose.                                               *)
(***************************************************************************)
onModalClose(m) ==
    /\ mounted[m]
    /\ removeNode(m)
    /\ outcome' = [outcome EXCEPT ![m] = IF container[m] = "attached"
                                           THEN "closed" ELSE @]

(***************************************************************************)
(* onModalSave(v): removeNode(); onSave && onSave(v).                      *)
(***************************************************************************)
onModalSave(m) ==
    /\ mounted[m]
    /\ removeNode(m)
    /\ outcome' = [outcome EXCEPT ![m] = IF container[m] = "attached"
                                           THEN "saved" ELSE @]

Next ==
    \E m \in Modals :
        \/ openFormulaModal(m)
        \/ onModalClose(m)
        \/ onModalSave(m)

Spec == Init /\ [][Next]_vars

-----------------------------------------------------------------------------
TypeOK ==
    /\ container \in [Modals -> {"none", "attached", "detached"}]
    /\ mounted \in [Modals -> BOOLEAN]
    /\ outcome \in [Modals -> {"open", "closed", "saved"}]
    /\ crashed \in [Modals -> BOOLEAN]


(***************************************************************************)
(* removeNode never meets a container without a parent: however the       *)
(* close button, the Modal's cancel, the Popup's close and the editor's    *)
(* save of several open editors interleave, container.parentElement! is    *)
(* never null, so onClose and onSave always run.                           *)
(***************************************************************************)
NoCrash ==
    \A m \in Modals : ~crashed[m]

(***************************************************************************)
(* An editor that reported closed or saved has left the page: its tree is *)
(* unmounted and its container removed from document.body, so no editor   *)
(* leaks however many were opened.                                         *)
(***************************************************************************)
ClosedModalRemoved ==
    \A m \in Modals :
        outcome[m] # "open" => container[m] = "detached" /\ ~mounted[m]

(***************************************************************************)
(* The phase of an editor as its caller sees it: ended once onClose or    *)
(* onSave ran, open once its container was created, idle before.           *)
(***************************************************************************)
phaseBar ==
    [m \in Modals |-> IF outcome[m] # "open" THEN outcome[m]
                      ELSE IF container[m] = "none" THEN "idle" ELSE "open"]

Lifecycle == INSTANCE EditorLifecycle WITH phase <- phaseBar

(***************************************************************************)
(* openFormulaModal, removeNode and the two callbacks implement the editor *)
(* lifecycle: every editor is opened before it ends, and onClose or onSave *)
(* is reported once, never both and never twice, however the Modal's      *)
(* cancel, the Popup's close and the editor's save interleave.             *)
(***************************************************************************)
ImplementsLifecycle == Lifecycle!Spec

=============================================================================
