\* Two sockets for a client, a connection of the server and its listener, so that they
\* take them from each other.
SPECIFICATION FairSpec
CONSTANTS
  NumSockets = 2
  BufSize = 2
  RecvAt = 2
  IncMod = 3
  MaxLen = 2
  MaxBytes = 3
PROPERTIES
  ImplementsByteStream
  
CHECK_DEADLOCK TRUE
