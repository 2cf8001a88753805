--------------------------- MODULE ExclusiveSection ---------------------------
(***************************************************************************)
(* What the callers of DistributedWorkspaceLockService.runExclusive rely   *)
(* on: a section that one caller at a time may be inside.  WorkspaceLock   *)
(* implements it as long as Redis answers in time, and the operations of   *)
(* ProjectWorkspace keep it on each of their keys.                         *)
(***************************************************************************)
CONSTANT Caller

VARIABLE inside          \* the callers whose task is running

Init == inside = {}

Enter(c) == inside = {} /\ inside' = {c}
Leave(c) == c \in inside /\ inside' = inside \ {c}

Next == \E c \in Caller : Enter(c) \/ Leave(c)

Spec == Init /\ [][Next]_inside
===============================================================================
