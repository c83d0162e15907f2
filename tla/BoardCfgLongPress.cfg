\* A bounce inside update_key_state is taken for a press of two seconds.
SPECIFICATION BoardSpec
CONSTANTS
  Softs = {site, def}
  DefaultSoft = def
  Notifies = {on, off}
  DefaultNotify = on
  Bad = Bad
  NoCfg = NoCfg
  MaxPresses = 3
PROPERTIES
  LongPressIsLong
