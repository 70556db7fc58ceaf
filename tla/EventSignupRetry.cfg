\* Do signups retry beside an event save?  NeverRetries is expected to fail.
CONSTANTS
  r1 = r1  r2 = r2  r3 = r3
  main = main  child = child  none = none
  Reqs = {r1, r2}
  Editors = {a1}
  Main = main
  Children = {child}
  Forms <- MCForms
  Caps = {0, 2}
  ManualNrs = {}
  Retries = 1
  None = none
SPECIFICATION Spec

CHECK_DEADLOCK FALSE


INVARIANTS NeverRetries
