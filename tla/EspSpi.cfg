\* Three calls, so that a late or lost chunk of one meets the next; messages of up to
\* three chunks; one reset; tries and polls as in the code.  The calls are bounded, so
\* the run comes to an end.
SPECIFICATION FairSpec
CONSTANTS
  MaxChunks = 3
  MaxTries = 10
  MaxPolls = 9
  MaxCalls = 3
  MaxResets = 1
INVARIANTS
  CleanCallArrives
PROPERTIES
  ImplementsEspCall
  CallReturns
CHECK_DEADLOCK FALSE
