\* Three requests of which one may delete a room, with fairness.
CONSTANTS
  p1 = p1  p2 = p2  p3 = p3
  ann = ann  bea = bea  none = none  absent = absent  gone = gone
  Rooms = {1, 2}
  Ids = {1, 2, 3, 4}
  Users = {ann, bea}
  Named <- MCNamed
  Calendars <- MCCalendars
  None = none  Absent = absent  Gone = gone
  Procs = {p1, p2, p3}
  Ops <- Deleting
SPECIFICATION FairSpec
CHECK_DEADLOCK FALSE
INVARIANTS NoOrphan
PROPERTIES ImplementsCalendar EveryRequestAnswered
