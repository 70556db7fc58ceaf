\* One browser with two requests at a time, two rooms, two rotations.
CONSTANTS
  office = office  sauna = sauna  q1 = q1  q2 = q2  b1 = b1  b2 = b2  s1 = s1  none = none
  Rooms = {office, sauna}
  Sessions = {s1}
  Requests = {q1, q2}
  Asks <- MCAsks
  Board = {b1, b2}
  Rotates <- MCRotates
  Limit = 2
  Lockout = 1
  Grace = 1
  MaxTime = 2
  MaxGuesses = 3
  None = none
SPECIFICATION Spec
SYMMETRY Symmetry
CHECK_DEADLOCK FALSE
INVARIANTS TypeOK UnlockEarned BookedWithCode RotationsCounted LockedAtLimit WrongCodesCount
PROPERTIES RotationEndsUnlocks
