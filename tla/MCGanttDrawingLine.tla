------------------------- MODULE MCGanttDrawingLine -------------------------
(***************************************************************************)
(* Model values and small functions for the Gantt dependency-line runs.    *)
(* The date cells are chosen so that some lines are date errors (r2 ends  *)
(* after r1 starts), some are not, and r3 has an empty start cell.         *)
(***************************************************************************)
EXTENDS GanttDrawingLine, TLC

CONSTANTS c1, c2, r1, r2, r3

MCStartDate == Restrict(r1 :> 1 @@ r2 :> 2 @@ r3 :> 0, Records)

MCEndDate == Restrict(r1 :> 1 @@ r2 :> 3 @@ r3 :> 2, Records)

\* The clients are interchangeable: canDraw is chosen for each in Init.
ClientSymmetry == Permutations(Clients)

=============================================================================
