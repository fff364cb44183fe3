\* Two requests with one token, and a clock that stands still.
CONSTANTS
  Requests = {q1, q2}
  Tokens = {t1}
  Good = {t1}
  None = None
  MaxUsers = 1
  MaxInvalid = 1
  Slots = 1
  UserTTL = 1
  InvalidTTL = 1
  MaxTime = 0
SPECIFICATION Spec
PROPERTY
  ProvenInvalidNotForwarded
