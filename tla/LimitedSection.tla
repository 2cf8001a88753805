---------------------------- MODULE LimitedSection ----------------------------
(***************************************************************************)
(* What the quotas promise: at most Limit at a time are inside, and they   *)
(* come and go one by one.  The generations admitted for a user or a team  *)
(* keep it, and so do the image builds that hold a place.                  *)
(***************************************************************************)
EXTENDS FiniteSets, Naturals

CONSTANTS Caller, Limit

VARIABLE inside          \* who has been let in

Init == inside = {}

Enter(c) ==
    /\ c \notin inside /\ Cardinality(inside) < Limit
    /\ inside' = inside \cup {c}
Leave(c) == c \in inside /\ inside' = inside \ {c}

Next == \E c \in Caller : Enter(c) \/ Leave(c)

Spec == Init /\ [][Next]_inside
===============================================================================
