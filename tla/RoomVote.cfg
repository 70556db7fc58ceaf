\* Two check-ins, two ballots of two members, one save of the admin page.
CONSTANTS
  p1 = p1  p2 = p2    v1 = v1  v2 = v2
  ann = ann  bea = bea  none = none  x = x  y = y
  Checks = {p1, p2}
  Attendees = {ann, bea}
  MaxTime = 1
  MaxFixes = 0
  None = none
  Ballots = {v1, v2}
  Members = {ann, bea}
  Voters = {ann, bea}
  Answers = {x, y}
  Polls <- MCPolls
  MaxEdits = 1
SPECIFICATION Spec
SYMMETRY Symmetry
CHECK_DEADLOCK FALSE
INVARIANTS TypeOK CountedInRoom SecondVoteOnlyByOverlap TallyIsBallots VoterListExact ReportAgrees
