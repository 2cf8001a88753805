---------------------------- MODULE MCPreviewBuild ----------------------------
(* An instance of PreviewBuild: two attempts in one session of a user, of    *)
(* whose builds one may run at a time.                                       *)
EXTENDS PreviewBuild

CONSTANTS b1, b2, s1, user

MCSessionOf == [b \in Build |-> s1]
MCScopesOf == [s \in Session |-> {user}]
MCLimit == [c \in Scope |-> 1]
===============================================================================
