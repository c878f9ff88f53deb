----------------------------- MODULE LinkStore -----------------------------
(***************************************************************************)
(* What the dependency-link field of a Gantt datasheet promises, whoever  *)
(* draws the links and however their views lag: every write replaces the  *)
(* cell of one target t by a value c that this same cell held at some      *)
(* earlier time, followed by one new source record s.  So a write may undo *)
(* links added to t since c, but never invents a cell nor moves links      *)
(* between records.  The new source is never t itself, and a field that    *)
(* allows a single record only ever gets a one-record cell.  Nothing else  *)
(* changes the cells, and the field's limitSingleRecord setting is fixed.  *)
(***************************************************************************)
EXTENDS Sequences

CONSTANTS Records

VARIABLES
    cell,          \* cell[r]: the link cell of record r
    past,          \* past[r]: every value cell[r] has held so far
    limitSingle    \* the field's limitSingleRecord

Init ==
    /\ cell = [r \in Records |-> <<>>]
    /\ past = [r \in Records |-> {<<>>}]
    /\ limitSingle \in BOOLEAN

\* Source s is linked into target t on top of the earlier cell value c.
Link(t, s, c) ==
    /\ c \in past[t]
    /\ s # t
    /\ limitSingle => c = <<>>
    /\ cell' = [cell EXCEPT ![t] = Append(c, s)]
    /\ past' = [past EXCEPT ![t] = @ \cup {Append(c, s)}]
    /\ UNCHANGED limitSingle

Next == \E t, s \in Records : \E c \in past[t] : Link(t, s, c)

Spec == Init /\ [][Next]_<<cell, past, limitSingle>>

=============================================================================
