-------------------------- MODULE MCDatabaseTransfer --------------------------
EXTENDS DatabaseTransfer

MCTransfer == 1..2
MCKindsOf == [t \in MCTransfer |-> IF t = 1 THEN Kinds ELSE {"native_restore"}]
MCBatches == <<2, 0, 1>>
MCHappens == EventKinds
===============================================================================
