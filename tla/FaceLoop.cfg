SPECIFICATION FairSpec
CONSTANTS
  FACE_DATA_MAX_COUNT = 2
  RelayOpenS = 2
  OutInterval = 1
  RecordTimeouts = {1}
  ScanTimeouts = {1, 2148}
  MaxFaces = 2
INVARIANTS
  PendingIffOwed
  PressRecordsOnce
PROPERTIES
  RecordedInTime
  RelayHeldOpen
  RelayCloses
  ScanEnds
