--------------------------- MODULE EditorLifecycle ---------------------------
(***************************************************************************)
(* What the formula editor promises its caller, without the DOM: each      *)
(* editor is opened once, and ends once, either closed (onClose is called) *)
(* or saved (onSave is called with the expression).  An ended editor never *)
(* reports again.                                                          *)
(***************************************************************************)
CONSTANTS
    Modals

VARIABLES
    phase        \* phase[m]: "idle", "open", "closed" or "saved"

Phases == {"idle", "open", "closed", "saved"}

Init == phase = [m \in Modals |-> "idle"]

Open(m) ==
    /\ phase[m] = "idle"
    /\ phase' = [phase EXCEPT ![m] = "open"]

End(m, result) ==
    /\ phase[m] = "open"
    /\ phase' = [phase EXCEPT ![m] = result]

Next ==
    \E m \in Modals :
        \/ Open(m)
        \/ \E result \in {"closed", "saved"} : End(m, result)

Spec == Init /\ [][Next]_phase

=============================================================================
