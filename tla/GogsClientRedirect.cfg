\* A gateway that redirects an update: what is reported as done is not.
CONSTANTS
  Creates = {c1}
  Updates = {u1}
  Reads = {}
  MaxAttempts = 3
  MaxHops = 1
  MaxCalls = 1
SPECIFICATION Spec
CHECK_DEADLOCK FALSE
INVARIANT
  SuccessMeansWritten
