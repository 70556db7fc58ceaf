-------------------------- MODULE MCAttendeeReorder --------------------------
(* A small instance of AttendeeReorder: two attendees, one of them with a     *)
(* number that is not a multiple of ten.                                      *)
EXTENDS AttendeeReorder, TLC

CONSTANTS ann, bea, dan, e1, e2, none

PairStart == ann :> 10 @@ bea :> 15

Symmetry == Permutations(Editors)
=============================================================================
