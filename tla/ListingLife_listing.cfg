CONSTANTS
  Crawls = {c1, c2}
  Prices = {p, q}
  NoPrice = none
  TTL = 1
  SkipUrlCheck = FALSE
  MaxDay = 2
  MaxAtOnce = 2
SPECIFICATION Spec
INVARIANTS StoredPriceIsConfirmed
PROPERTIES RegistrationDateIsKept NoSilentPriceChange DelistedNeedsALook
SYMMETRY Symmetry
