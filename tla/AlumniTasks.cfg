\* Two forms, one link, two workers lost and one API call that fails.
CONSTANTS
  t1 = t1  t2 = t2  k1 = k1  ann = ann  bea = bea  none = none
  Tasks = {t1, t2}
  Tokens = {k1}
  Emails = {ann, bea}
  Cols = {1, 2}
  Sheets <- MCSheets
  Retries = 1
  MaxLosses = 2
  MaxErrors = 1
  None = none
SPECIFICATION FairSpec
CHECK_DEADLOCK FALSE
INVARIANTS RepeatsOnlyByOverlap InstructionsMatchRows
PROPERTIES UpdatesLand
