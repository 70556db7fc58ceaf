---------------------------- MODULE MCEventSignup ----------------------------
(* Small instances of EventSignup. *)
EXTENDS EventSignup, TLC

CONSTANTS r1, r2, r3, main, child, none

\* Alone or with an avec for the child, alone for the parent.  The avec may
\* share an email with another request or with the guest.
MCForms ==
  {[ev |-> child, email |-> "x", avec |-> none],
   [ev |-> child, email |-> "y", avec |-> "z"],
   [ev |-> child, email |-> "y", avec |-> "y"],
   [ev |-> main,  email |-> "x", avec |-> none],
   [ev |-> main,  email |-> "w", avec |-> none]}

Symmetry == Permutations(Reqs)
=============================================================================
