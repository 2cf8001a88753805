CONSTANTS
    Transfer <- MCTransfer
    KindsOf <- MCKindsOf
    Worker = {w1, w2}
    None = None
    Tables = 3
    Batches <- MCBatches
    Happens <- MCHappens
    MaxEvents = 2
SPECIFICATION FairSpec
INVARIANTS
    TypeOK
    OneExecutor
    SucceededIsComplete
    CancelStopsAtNextLook
PROPERTIES
    TransfersEnd
    FinishedStays
CHECK_DEADLOCK FALSE
