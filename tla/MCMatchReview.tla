----------------------------- MODULE MCMatchReview -----------------------------
(***************************************************************************)
(* Matches for TLC: the deadline of the first passes while it is reviewed, *)
(* the others' never does or is not there.                                 *)
(***************************************************************************)
EXTENDS MatchReview, TLC

CONSTANTS a, b, q1, q2

Deadlines == [m \in Match |-> IF m = a THEN 0 ELSE None]
===============================================================================
