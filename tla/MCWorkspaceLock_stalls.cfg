CONSTANTS
  Caller = {c1, c2}
  NoToken = NoToken
  Stale = Stale
  Lease = 5
  Period = 2
  Wait = 3
  Lag = 1
  Reliable = FALSE
SPECIFICATION FairSpec
PROPERTIES OnlyOwnerFrees WaiterAnswered OrphanExpires
