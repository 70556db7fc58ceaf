\* Three requests of any kind but the deletion of a room.
CONSTANTS
  p1 = p1  p2 = p2  p3 = p3
  ann = ann  bea = bea  none = none  absent = absent  gone = gone
  Procs = {p1, p2, p3}
  Rooms = {1, 2}
  Ids = {1, 2, 3, 4}
  Users = {ann, bea}
  Named <- MCNamed
  Calendars <- MCCalendars
  None = none  Absent = absent  Gone = gone
  Ops <- Writing
SPECIFICATION Spec
SYMMETRY Symmetry
CHECK_DEADLOCK FALSE
INVARIANTS TypeOK NoOverlap CycleOnlyOfPages
PROPERTIES NoResurrection OwnerEdits ImplementsCalendar
