---------------------------- MODULE MCAlumniTasks ----------------------------
(* Small instances of AlumniTasks: an empty register, or one member in it. *)
EXTENDS AlumniTasks

CONSTANTS t1, t2, k1, ann, bea, none

Member(e) == [id |-> 1, email |-> e, ref |-> none, cells |-> [c \in Cols |-> {}],
              last |-> 0, mails |-> 0]

MCSheets == {<<>>, <<Member(ann)>>}
=============================================================================
