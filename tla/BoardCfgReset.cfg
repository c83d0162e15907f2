\* The settings in RAM outlive the reset and are saved with the next change.
SPECIFICATION BoardSpec
CONSTANTS
  Softs = {site, def}
  DefaultSoft = def
  Notifies = {on, off}
  DefaultNotify = on
  Bad = Bad
  NoCfg = NoCfg
  MaxPresses = 3
PROPERTIES
  ResetIsKept
