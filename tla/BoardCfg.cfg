\* Two values of each kind of setting, and three press edges from one start to the
\* next: a press, a bounce inside update_key_state and another press.
SPECIFICATION BoardSpec
CONSTANTS
  Softs = {site, def}
  DefaultSoft = def
  Notifies = {on, off}
  DefaultNotify = on
  Bad = Bad
  NoCfg = NoCfg
  MaxPresses = 3
INVARIANTS
  AckedSettingsLast
  OneReportPerPress
CHECK_DEADLOCK TRUE
