----------------------------- MODULE MCRoomVote -----------------------------
(* Small instances of RoomVote: a single-choice poll and one with two picks. *)
EXTENDS RoomVote, TLC

CONSTANTS p1, p2, v1, v2, ann, bea, none, x, y

Poll(options, multiple, required, attached) ==
  [options |-> options, multiple |-> multiple, required |-> required,
   attached |-> attached, ended |-> FALSE]

MCPolls == {Poll("members", FALSE, 0, TRUE), Poll("anyone", FALSE, 0, FALSE),
            Poll("voters", TRUE, 2, TRUE)}

Symmetry ==
  Permutations(Checks) \cup Permutations(Ballots) \cup Permutations(Answers) \cup Permutations(Members)
=============================================================================
