-------------------------- MODULE MCBookingAccess --------------------------
(* A small instance of BookingAccess: one browser, two rooms, one rotated.  *)
EXTENDS BookingAccess, TLC

CONSTANTS office, sauna, q1, q2, b1, b2, s1, none

Ask(r, kind, code) == [room |-> r, kind |-> kind, code |-> code]

MCAsks ==
  {Ask(office, "code", c) : c \in 0..2} \cup {Ask(office, "book", 0), Ask(office, "open", 0),
   Ask(sauna, "code", 1)}

MCRotates == [b \in Board |-> office]

Symmetry == Permutations(Requests) \cup Permutations(Board)
=============================================================================
