----------------------------- MODULE MCGeneration -----------------------------
(* Instances of Generation: t1 and t2 are two attempts of a user in one      *)
(* session, t3 is a task of the same user in another session.                *)
EXTENDS Generation, TLC

CONSTANTS t1, t2, t3, r1, r2, c1, c2, s1, s2, user, team

MCSessionOf == [t \in Task |-> IF t = t3 THEN s2 ELSE s1]
MCScopesOf == [s \in Session |-> {user, team}]
MCLimit == [c \in Scope |-> IF c = user THEN 1 ELSE 2]

Symmetry == Permutations(Runner) \cup Permutations(Call)
===============================================================================
