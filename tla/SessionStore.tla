---------------------------- MODULE SessionStore ----------------------------
(***************************************************************************)
(* What the session thunks promise the rest of the app about the login     *)
(* flag and the active space, without requests or answers: a login may     *)
(* choose the active space, but only when none is active; a failed check   *)
(* logs the user out and leaves the space alone.  Nothing else changes     *)
(* either of them.                                                         *)
(***************************************************************************)
CONSTANTS
    Spaces,
    NoSpace

VARIABLES
    isLogin,
    activeId

Init ==
    /\ isLogin = FALSE
    /\ activeId = NoSpace

\* A login that finds no active space and activates the user's space s.
LoginActivate(s) ==
    /\ activeId = NoSpace
    /\ isLogin' = TRUE
    /\ activeId' = s

\* A login that keeps the space already active.
LoginKeep ==
    /\ activeId # NoSpace
    /\ isLogin' = TRUE
    /\ UNCHANGED activeId

Logout ==
    /\ isLogin' = FALSE
    /\ UNCHANGED activeId

Next ==
    \/ \E s \in Spaces : LoginActivate(s)
    \/ LoginKeep
    \/ Logout

Spec == Init /\ [][Next]_<<isLogin, activeId>>

=============================================================================
