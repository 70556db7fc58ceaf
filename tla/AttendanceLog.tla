---------------------------- MODULE AttendanceLog ----------------------------
(***************************************************************************)
(* The attendance log of one meeting and every way the code reads it.      *)
(*                                                                         *)
(* A change is [id, who, at, type]; the log is a set of changes with       *)
(* different ids.  The database answers "who is present" with a window     *)
(* query, with the first row of an ordered query, and the report replays   *)
(* the rows in Python: three readings of one log, each defined here as its *)
(* own code does it.  Nothing but their ordering, timestamp and then       *)
(* primary key, makes them agree.                                          *)
(***************************************************************************)
EXTENDS Integers, FiniteSets, FiniteSetsExt

\* The order of order_by("timestamp", "pk").
Before(c, d) == c.at < d.at \/ (c.at = d.at /\ c.id < d.id)

\* AttendanceEvent.latest_attendance_changes: the newest row of each attendee
\* at a moment, departures included.
LatestChanges(log, t) ==
  LET past == {c \in log : c.at <= t}
  IN  {c \in past : \A d \in past : d.who = c.who => ~Before(c, d)}

Arrivals(changes) == {c.who : c \in {d \in changes : d.type = "ENTER"}}

PresentAttendees(log, t) == Arrivals(LatestChanges(log, t))

PresentCount(log, t) == Cardinality({c \in LatestChanges(log, t) : c.type = "ENTER"})

\* AttendanceEvent.is_attendee_present: the first row in descending order.
IsAttendeePresent(log, a, t) ==
  LET mine == {c \in log : c.who = a /\ c.at <= t}
  IN  \E c \in mine : c.type = "ENTER" /\ \A d \in mine \ {c} : Before(d, c)

\* The order of order_by("timestamp", "pk"), as the report loads the rows: the
\* k-th has k - 1 before it.
Timeline(log) ==
  [k \in 1..Cardinality(log) |->
     CHOOSE c \in log : Cardinality({d \in log : Before(d, c)}) = k - 1]

\* Mutant: a change at the very moment of the end is left out.
CountsBefore(c, end) == \A t \in end : c.at < t

\* end is {} or the set of one moment.  A change after the recorded end of the
\* meeting is not replayed.
Counts(c, end) == \A t \in end : c.at <= t

\* One turn of the loop over the rows: those in the room, and the largest
\* number there has been.
Replay(acc, c, end) ==
  LET room == IF c.type = "ENTER" THEN acc.room \cup {c.who} ELSE acc.room \ {c.who}
  IN  IF Counts(c, end)
      THEN [room |-> room, peak |-> Max({acc.peak, Cardinality(room)})]
      ELSE acc

\* After the first k rows.
Replayed(log, end) ==
  LET rows == Timeline(log)
      after[k \in 0..Cardinality(log)] ==
        IF k = 0 THEN [room |-> {}, peak |-> 0] ELSE Replay(after[k - 1], rows[k], end)
  IN  after

PeakPresentCount(log, end) == Replayed(log, end)[Cardinality(log)].peak

EverPresentCount(log) == Cardinality(Arrivals(log))

\* present_at_end: at the recorded end, or at the last change there is.
PresentAtEnd(log, end) ==
  LET moment == IF end # {} THEN end ELSE {c.at : c \in log}
  IN  IF moment = {} THEN 0 ELSE PresentCount(log, Max(moment))
==============================================================================
