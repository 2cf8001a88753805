-------------------------- MODULE MCProjectWorkspace --------------------------
(* Instances of ProjectWorkspace: an owner and one other user.  An operation *)
(* is the pair of what it does and for whom.                                 *)
EXTENDS ProjectWorkspace, TLC

CONSTANTS u1, u2

MCUserSeq == <<u1, u2>>

MCKind == [o \in Op |-> o[1]]
MCUserOf == [o \in Op |-> o[2]]

\* Requests of a user, two cleanup workers and an administrator's purge.
EditOps == {<<"save", u2>>, <<"generate", u2>>, <<"open", u2>>,
            <<"clean", u1>>, <<"clean", u2>>, <<"purge", u1>>}
\* A generation, a save and a deployment against one cleanup worker.
LiveOps == {<<"generate", u2>>, <<"save", u1>>, <<"deploy", u2>>,
            <<"clean", u1>>}
===============================================================================
