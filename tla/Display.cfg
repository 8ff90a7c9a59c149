CONSTANTS
  Timeout = 10
  Check = 2
  Misses = 1
  Boot = 3
  Ready = 2
  Banner = 2
  Page = 3
  Pages = 6
  Wrap = 40
  Rollover = FALSE
  Faults = 1

SPECIFICATION DisplaySpec

INVARIANTS
  TypeOK
  SilentClientIsDropped
  PollingClientIsCounted
  LiveHasClient
  GlassIsCurrent
  TextsAreWhole
