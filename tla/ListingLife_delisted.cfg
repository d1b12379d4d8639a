CONSTANTS
  Crawls = {c1}
  Prices = {p}
  NoPrice = none
  TTL = 1
  SkipUrlCheck = TRUE
  MaxDay = 1
  MaxAtOnce = 2
SPECIFICATION Spec
PROPERTIES DelistedNeedsALook
