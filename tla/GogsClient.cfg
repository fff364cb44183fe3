\* An update and a read, each redirected twice at most and made twice.  Calls
\* share nothing, and whatever a creation does an update may do.
CONSTANTS
  Creates = {}
  Updates = {u1}
  Reads = {r1}
  MaxAttempts = 3
  MaxHops = 2
  MaxCalls = 2
SPECIFICATION FairSpec
CHECK_DEADLOCK FALSE
INVARIANTS
  TypeOK
  DefinitiveMeansUnwritten
  WrittenAtMostOnce
  SuccessIsReal
PROPERTY
  CallsAnswered
