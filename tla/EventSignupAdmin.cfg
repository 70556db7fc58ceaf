\* Three requests; beside them one save of an event and deletions of attendees.
CONSTANTS
  r1 = r1  r2 = r2  r3 = r3
  main = main  child = child  none = none
  Reqs = {r1, r2, r3}
  Editors = {a1}
  Main = main
  Children = {child}
  Forms <- MCForms
  Caps = {0, 2}
  ManualNrs = {}
  Retries = 1
  None = none
SPECIFICATION Spec
SYMMETRY Symmetry
CHECK_DEADLOCK FALSE
INVARIANTS TypeOK RetriesOnlyAfterEdit NoWaitCycle
PROPERTIES LockedSignupFits OverbookedOnlyByRace PairsTogether ImplementsLedger NumbersFollowCommits
