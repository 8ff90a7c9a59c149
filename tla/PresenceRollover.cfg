CONSTANTS
  Timeout = 10
  Check = 2
  Misses = 1
  Boot = 3
  Ready = 2
  Banner = 2
  Page = 3
  Pages = 2
  Wrap = 30
  Rollover = TRUE

SPECIFICATION Spec

INVARIANT
  PollingClientIsCounted
