\* Four commands in both framings: a picture received, one abandoned in the
\* middle, and the command after it.  What is left of an abandoned picture and a
\* command after it may fit cJSON_recv_buf, a whole picture does not.
SPECIFICATION FairSpec
CONSTANTS
  Pictures = {"p", "q"}
  Plain = {"c"}
  PicLen = 6
  PROTOCOL_BUF_LEN = 8
  JPEG_BUF_LEN = 10
  MaxCmds = 4
INVARIANTS
  WritesInBounds
  PictureModeOnlyInAWait
  JpegAnsweredOnce
  PictureIntact
  CommandIsWaitedFor
PROPERTIES
  PictureEventuallyAnswered
CHECK_DEADLOCK TRUE
