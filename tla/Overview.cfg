\* Two check-ins, one correction, one broken connection.
CONSTANTS
  p1 = p1  p2 = p2  ann = ann  none = none  g1 = g1
  Checks = {p1, p2}
  Attendees = {ann}
  MaxTime = 1
  MaxFixes = 1
  None = none
  Pages = {g1}
  MaxDrops = 1
SPECIFICATION FairSpec
CHECK_DEADLOCK FALSE
INVARIANTS SettledPagesAgree RepeatOnlyByOverlap
PROPERTIES PagesSettle
