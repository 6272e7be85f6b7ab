SPECIFICATION FairSpec
CONSTANTS
  get1 = get1
  get2 = get2
  create1 = create1
  Calls = {get1, get2}
  Creates = {create1}
  Window = 1
  Seconds = {2}
  MaxTime = 1
INVARIANTS FreshRetry
PROPERTIES SendsFreshTokenOrNone CallsEnd
CHECK_DEADLOCK FALSE
