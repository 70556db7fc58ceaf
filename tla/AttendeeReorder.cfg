\* Two attendees, one who signs up, two editors.
CONSTANTS
  ann = ann  bea = bea  dan = dan
  e1 = e1  e2 = e2  none = none
  Registered = {ann, bea}
  Start <- PairStart
  Signups = {dan}
  Editors = {e1, e2}
  None = none
SPECIFICATION Spec
SYMMETRY Symmetry
CHECK_DEADLOCK FALSE
INVARIANTS FailsOnlyByOverlap
PROPERTIES ReorderIsAssignment ReturnsOnlyByOverlap
