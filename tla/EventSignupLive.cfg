\* Two requests with attendee edits and event saves running beside them.
CONSTANTS
  r1 = r1  r2 = r2  r3 = r3
  main = main  child = child  none = none
  Reqs = {r1, r2}
  Editors = {a1}
  Main = main
  Children = {child}
  Forms <- MCForms
  Caps = {0, 2}
  ManualNrs = {20}
  Retries = 1
  None = none
SPECIFICATION FairSpec
CHECK_DEADLOCK FALSE

PROPERTIES EveryRequestAnswered
