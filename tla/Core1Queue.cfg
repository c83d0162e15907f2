\* Room for two pictures: one can be sent, two wait, and one be built, so there are
\* four tasks.  Two pictures tell the order, two bytes a picture half sent.
SPECIFICATION FairSpec
CONSTANTS
  Pictures = {p, q}
  Tasks = {t1, t2, t3, t4}
  NoTask = NoTask
  Capacity = 2
  PicLen = 2
INVARIANTS
  PushNeverRefused
  CountIsRecords
  BlocksAccountedFor
PROPERTIES
  ImplementsPictureQueue
  QueuedEventuallyFreed
CHECK_DEADLOCK TRUE
