--------------------------- MODULE MCWorkspaceLock ---------------------------
(* Small instances of WorkspaceLock: two or three callers, a lease of five  *)
(* ticks renewed every two, so that renewals, expiries and late answers     *)
(* interleave with the polling of the others.                               *)
EXTENDS WorkspaceLock, TLC

CallerSymmetry == Permutations(Caller)
===============================================================================
