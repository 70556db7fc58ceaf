\* Two forms, one worker lost, no API error: the settings say that no task is
\* silently dropped.
CONSTANTS
  t1 = t1  t2 = t2  k1 = k1  ann = ann  bea = bea  none = none
  Tasks = {t1, t2}
  Tokens = {k1}
  Emails = {ann, bea}
  Cols = {1, 2}
  Sheets <- MCSheets
  Retries = 1
  MaxLosses = 1
  MaxErrors = 0
  None = none
SPECIFICATION Spec
CHECK_DEADLOCK FALSE
INVARIANTS NothingSilentlyDropped
