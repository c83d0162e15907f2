\* Three slots, two uids, three kinds of feature: enough for a table that is
\* full, duplicate uids, holes, and a face on both sides of the one touched, in its
\* sector or not.
SPECIFICATION Spec
CONSTANTS
  N = 3
  PerSector = 2
  Uids = {u1, u2}
  NoUid = NoUid
  Dirty = Dirty
  None = None
INVARIANTS
  RamMirrorsFlash
  LookupMatchesFlash
PROPERTIES
  ImplementsFaceDB
CHECK_DEADLOCK TRUE
