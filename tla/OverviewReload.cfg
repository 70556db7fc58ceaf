\* One correction and no broken connection: a reload is said to repair the
\* page.
CONSTANTS
  p1 = p1  p2 = p2  ann = ann  none = none  g1 = g1
  Checks = {p1, p2}
  Attendees = {ann}
  MaxTime = 0
  MaxFixes = 1
  None = none
  Pages = {g1}
  MaxDrops = 0
SPECIFICATION Spec
CHECK_DEADLOCK FALSE
INVARIANTS ReloadRepairs
