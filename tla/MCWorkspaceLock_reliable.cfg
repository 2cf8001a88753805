CONSTANTS
  Caller = {c1, c2, c3}
  NoToken = NoToken
  Stale = Stale
  Lease = 5
  Period = 2
  Wait = 3
  Lag = 1
  Reliable = TRUE
SYMMETRY CallerSymmetry
SPECIFICATION Spec
INVARIANTS TypeOK MutualExclusion NoSpuriousLoss
PROPERTY ImplementsSection
