---------------------------- MODULE MCUserSession ----------------------------
(***************************************************************************)
(* Two spaces, so that a second getUserMe answer could switch the space;   *)
(* three thunk calls, enough for a sign-in whose getUserMe races a        *)
(* password update's.                                                      *)
(***************************************************************************)
EXTENDS UserSession, TLC

CONSTANTS s1, s2

MCSpaces == {s1, s2}

SpaceSymmetry == Permutations(MCSpaces)

=============================================================================
